---------------------------- MODULE Spec2Model ----------------------------
(***************************************************************************)
(* A model of cogent.core.tree.TreeNode: the structural edits of the       *)
(* parent / Children graph and the traversal generators.                   *)
(*                                                                         *)
(* Nodes are identities (positive integers); None is 0.  Python list       *)
(* indices are 0-based, the sequences here are 1-based: index i of the     *)
(* source is position i+1 of the model.                                    *)
(***************************************************************************)
EXTENDS Integers, Sequences, FiniteSets, TLC

\* ------------------------------------------------------------------ bounds
\* the longest Children list the editing specification explores
MaxChildren == 3

\* the node objects of the editing specification
Nodes == {1, 2, 3}

\* the number of nodes of the trees the traversal specifications walk
TreeSize == 4

TreeNodes == 1..TreeSize

\* the calls of one run: every object constructed, and one call more
MaxOps == Cardinality(Nodes) + 1

None == 0

\* Name=None, the default of __init__
NoName == "None"

\* params.get("length", None) of a dict without the key, or holding None: the
\* Params={} that __init__ makes has no length
NoLength == -1

\* the names given to nodes: unnamed nodes compare by identity, the nodes named
\* "a" compare equal to each other
Names == {NoName, "a"}

VARIABLES
    made,       \* the nodes constructed so far
    Name,       \* node -> its Name attribute
    parent,     \* node -> its _parent attribute (None or a node)
    Children,   \* node -> its Children list
    ret,        \* the outcome of the last call: NoValue for a procedure, Raised,
                \* or [op, self, arg, val] for pop, remove and removeNode
    ops,        \* the number of calls made so far
    gen,        \* the traversal generator in progress (NoGen if none)
    out,        \* the nodes the generator has yielded, in order
    params,     \* node -> the dict object its params attribute refers to
    dicts       \* dict object -> its contents: the value under "length"

vars == <<made, Name, parent, Children, ret, ops, gen, out, params, dicts>>

NoValue == [op |-> "None"]

Raised == [op |-> "raise"]

NoGen == [kind |-> "None", pc |-> "done"]

\* ------------------------------------------------------------- list helpers
RemoveAt(s, k) == SubSeq(s, 1, k - 1) \o SubSeq(s, k + 1, Len(s))

InsertAt(s, k, x) == SubSeq(s, 1, k - 1) \o <<x>> \o SubSeq(s, k, Len(s))

Range(s) == {s[k] : k \in 1..Len(s)}

Min(a, b) == IF a < b THEN a ELSE b

\* the argument lists: no item, one item, two items
ItemLists(S) == {<<>>} \cup {<<x>> : x \in S} \cup {<<x, y>> : x, y \in S}

\* ------------------------------------------------------------ comparisons
\* TreeNode.__cmp__ == 0: the same object, or equal names that are not None
NodeEq(nm, x, y) == (x = y) \/ (nm[x] = nm[y] /\ nm[x] # NoName)

\* list.index by ==, which is what "x in list" and list.remove use; 0 if absent
IndexEq(nm, s, x) ==
    IF \E k \in 1..Len(s) : NodeEq(nm, s[k], x)
    THEN CHOOSE k \in 1..Len(s) :
            /\ NodeEq(nm, s[k], x)
            /\ \A j \in 1..(k - 1) : ~NodeEq(nm, s[j], x)
    ELSE 0

\* the first position holding the very object x; 0 if absent
IndexIs(s, x) ==
    IF \E k \in 1..Len(s) : s[k] = x
    THEN CHOOSE k \in 1..Len(s) : s[k] = x /\ \A j \in 1..(k - 1) : s[j] # x
    ELSE 0

\* ---------------------------------------------------------- heap transformers
\* A heap is [nm, par, ch, err]: the attributes of every node, and whether the
\* call has raised.  A call that raises keeps the assignments made before it.
Heap == [nm |-> Name, par |-> parent, ch |-> Children, err |-> FALSE]

\* i._parent.Children.remove(i): ValueError if no element == i
ListRemove(h, owner, i) ==
    LET k == IndexEq(h.nm, h.ch[owner], i)
    IN  IF k = 0 THEN [h EXCEPT !.err = TRUE]
        ELSE [h EXCEPT !.ch[owner] = RemoveAt(@, k)]

ToSelfChild(h, self, i) ==
    IF h.err THEN h
    ELSE LET p == h.par[i]
             \* i._parent not in (None, self): tuple membership is "is, or =="
             h1 == IF p # None /\ ~NodeEq(h.nm, p, self)
                   THEN ListRemove(h, p, i)
                   ELSE h
         IN  IF h1.err THEN h1 ELSE [h1 EXCEPT !.par[i] = self]

append(h, self, i) ==
    LET h1 == ToSelfChild(h, self, i)
    IN  IF h1.err THEN h1 ELSE [h1 EXCEPT !.ch[self] = Append(@, i)]

\* map(self._to_self_child, items), left to right
RECURSIVE MapToSelfChild(_, _, _)
MapToSelfChild(h, self, items) ==
    IF items = <<>> THEN h
    ELSE MapToSelfChild(ToSelfChild(h, self, Head(items)), self, Tail(items))

extend(h, self, items) ==
    LET h1 == MapToSelfChild(h, self, items)
    IN  IF h1.err THEN h1 ELSE [h1 EXCEPT !.ch[self] = @ \o items]

\* index is the 0-based argument, clamped to the list as list.insert does
insert(h, self, index, i) ==
    LET h1 == ToSelfChild(h, self, i)
    IN  IF h1.err THEN h1
        ELSE [h1 EXCEPT !.ch[self] = InsertAt(@, Min(index, Len(@)) + 1, i)]

\* __delitem__ with a single index k (1-based, in range)
delitem(h, self, k) ==
    LET curr == h.ch[self][k]
    IN  [h EXCEPT !.par[curr] = None, !.ch[self] = RemoveAt(@, k)]

\* __delitem__ with the slice [lo:hi] (0-based, 0 <= lo <= hi <= len)
delslice(h, self, lo, hi) ==
    [h EXCEPT !.par = [n \in DOMAIN h.par |->
                        IF \E k \in (lo + 1)..hi : h.ch[self][k] = n
                        THEN None ELSE @[n]],
              !.ch[self] = SubSeq(@, 1, lo) \o SubSeq(@, hi + 1, Len(@))]

\* removeNode: by identity; the heap after, and the value returned
removeNode(h, self, target) ==
    LET k == IndexIs(h.ch[self], target)
    IN  IF k = 0 THEN [heap |-> h, result |-> FALSE]
        ELSE [heap |-> delitem(h, self, k), result |-> TRUE]

\* the first position whose node has the name; 0 if absent
IndexName(nm, s, target) ==
    IF \E k \in 1..Len(s) : nm[s[k]] = target
    THEN CHOOSE k \in 1..Len(s) :
            nm[s[k]] = target /\ \A j \in 1..(k - 1) : nm[s[j]] # target
    ELSE 0

\* remove with a slip: the last child of the name goes, not the first
remove_last(h, self, target) ==
    LET hits == {k \in 1..Len(h.ch[self]) : h.nm[h.ch[self][k]] = target}
    IN  IF hits = {} THEN [heap |-> h, result |-> FALSE]
        ELSE [heap |-> delitem(h, self, CHOOSE k \in hits : \A j \in hits : j <= k),
              result |-> TRUE]

\* remove: by name
remove(h, self, target) ==
    LET k == IndexName(h.nm, h.ch[self], target)
    IN  IF k = 0 THEN [heap |-> h, result |-> FALSE]
        ELSE [heap |-> removeNode(h, self, h.ch[self][k]).heap, result |-> TRUE]

pop(h, self, k) ==
    LET result == h.ch[self][k]
    IN  [heap |-> [h EXCEPT !.ch[self] = RemoveAt(@, k), !.par[result] = None],
         result |-> result]

\* __setitem__ with a single index k (1-based, in range)
setitem(h, self, k, val) ==
    LET curr == h.ch[self][k]
        h1 == [h EXCEPT !.par[curr] = None]
        h2 == ToSelfChild(h1, self, val)
    IN  IF h2.err THEN h2 ELSE [h2 EXCEPT !.ch[self][k] = val]

\* __setitem__ with the slice [lo:hi]
setslice(h, self, lo, hi, val) ==
    LET h1 == [h EXCEPT !.par = [n \in DOMAIN h.par |->
                        IF \E k \in (lo + 1)..hi : h.ch[self][k] = n
                        THEN None ELSE @[n]]]
        h2 == MapToSelfChild(h1, self, val)
    IN  IF h2.err THEN h2
        ELSE [h2 EXCEPT !.ch[self] =
                SubSeq(@, 1, lo) \o val \o SubSeq(@, hi + 1, Len(@))]

\* _set_parent, the setter of the Parent property
set_parent(h, self, P) ==
    LET h1 == IF h.par[self] # None
              THEN removeNode(h, h.par[self], self).heap
              ELSE h
        h2 == [h1 EXCEPT !.par[self] = P]
    IN  IF P # None /\ IndexEq(h2.nm, h2.ch[P], self) = 0
        THEN [h2 EXCEPT !.ch[P] = Append(@, self)]
        ELSE h2

\* __init__(Name, Children, Parent) of the fresh object self
init(h, self, nm, kids, P) ==
    LET h0 == [h EXCEPT !.nm[self] = nm, !.ch[self] = <<>>]
        h1 == extend(h0, self, kids)
    IN  IF h1.err THEN h1
        ELSE LET h2 == [h1 EXCEPT !.par[self] = P]
             IN  IF P # None /\ IndexEq(h2.nm, h2.ch[P], self) = 0
                 THEN append(h2, P, self)
                 ELSE h2

\* ------------------------------------------------------------------ actions
Bounded(h) == \A n \in DOMAIN h.ch : Len(h.ch[n]) <= MaxChildren

Commit(h, r) ==
    /\ ops < MaxOps
    /\ ops' = ops + 1
    /\ Bounded(h)
    /\ Name' = h.nm
    /\ parent' = h.par
    /\ Children' = h.ch
    /\ ret' = IF h.err THEN Raised ELSE r
    /\ UNCHANGED <<gen, out, params, dicts>>

New(nm, kids, P) ==
    /\ made # Nodes
    /\ LET self == Cardinality(made) + 1
       IN  /\ made' = made \cup {self}
           /\ Commit(init(Heap, self, nm, kids, P), NoValue)

DoAppend(self, i) ==
    /\ Commit(append(Heap, self, i), NoValue)
    /\ UNCHANGED made

DoExtend(self, items) ==
    /\ Commit(extend(Heap, self, items), NoValue)
    /\ UNCHANGED made

DoInsert(self, index, i) ==
    /\ index <= Len(Children[self]) + 1
    /\ Commit(insert(Heap, self, index, i), NoValue)
    /\ UNCHANGED made

DoPop(self, k) ==
    /\ k \in 1..Len(Children[self])
    /\ LET r == pop(Heap, self, k)
       IN  Commit(r.heap, [op |-> "pop", self |-> self, arg |-> k, val |-> r.result])
    /\ UNCHANGED made

DoRemove(self, target) ==
    /\ LET r == remove(Heap, self, target)
       IN  Commit(r.heap,
                  [op |-> "remove", self |-> self, arg |-> target, val |-> r.result])
    /\ UNCHANGED made

DoRemoveNode(self, target) ==
    /\ LET r == removeNode(Heap, self, target)
       IN  Commit(r.heap,
                  [op |-> "removeNode", self |-> self, arg |-> target, val |-> r.result])
    /\ UNCHANGED made

DoSetItem(self, k, val) ==
    /\ k \in 1..Len(Children[self])
    /\ Commit(setitem(Heap, self, k, val), NoValue)
    /\ UNCHANGED made

DoSetSlice(self, lo, hi, val) ==
    /\ lo <= hi /\ hi <= Len(Children[self])
    /\ Commit(setslice(Heap, self, lo, hi, val), NoValue)
    /\ UNCHANGED made

DoDelItem(self, k) ==
    /\ k \in 1..Len(Children[self])
    /\ Commit(delitem(Heap, self, k), NoValue)
    /\ UNCHANGED made

DoDelSlice(self, lo, hi) ==
    /\ lo <= hi /\ hi <= Len(Children[self])
    /\ Commit(delslice(Heap, self, lo, hi), NoValue)
    /\ UNCHANGED made

DoSetParent(self, P) ==
    /\ Commit(set_parent(Heap, self, P), NoValue)
    /\ UNCHANGED made

Init ==
    /\ made = {}
    /\ Name = [n \in Nodes |-> NoName]
    /\ parent = [n \in Nodes |-> None]
    /\ Children = [n \in Nodes |-> <<>>]
    /\ ret = NoValue
    /\ ops = 0
    /\ gen = NoGen
    /\ out = <<>>
    /\ params = [n \in Nodes |-> n]
    /\ dicts = [d \in Nodes |-> NoLength]

Next ==
    \/ \E nm \in Names, kids \in ItemLists(made), P \in made \cup {None} :
            New(nm, kids, P)
    \/ \E self \in made, i \in made : DoAppend(self, i)
    \/ \E self \in made, items \in ItemLists(made) : DoExtend(self, items)
    \/ \E self \in made, index \in 0..MaxChildren, i \in made : DoInsert(self, index, i)
    \/ \E self \in made, k \in 1..MaxChildren : DoPop(self, k)
    \/ \E self \in made, target \in Names : DoRemove(self, target)
    \/ \E self \in made, target \in made : DoRemoveNode(self, target)
    \/ \E self \in made, k \in 1..MaxChildren, val \in made : DoSetItem(self, k, val)
    \/ \E self \in made, lo \in 0..MaxChildren, hi \in 0..MaxChildren,
          val \in ItemLists(made) : DoSetSlice(self, lo, hi, val)
    \/ \E self \in made, k \in 1..MaxChildren : DoDelItem(self, k)
    \/ \E self \in made, lo \in 0..MaxChildren, hi \in 0..MaxChildren :
            DoDelSlice(self, lo, hi)
    \/ \E self \in made, P \in made \cup {None} : DoSetParent(self, P)

Spec == Init /\ [][Next]_vars

\* ------------------------------------------------------- the graph's shape
\* how often node c occurs in the list s
Count(s, c) == Cardinality({k \in 1..Len(s) : s[k] = c})

\* how often node c occurs in all the Children lists together
Listed(c) ==
    LET RECURSIVE Sum(_)
        Sum(S) == IF S = {} THEN 0
                  ELSE LET n == CHOOSE n \in S : TRUE
                       IN  Count(Children[n], c) + Sum(S \ {n})
    IN  Sum(DOMAIN Children)

\* the node reached from n by following k parent references (None once past a root)
RECURSIVE Up(_, _)
Up(n, k) == IF k = 0 \/ n = None THEN n ELSE Up(parent[n], k - 1)

\* C1: every element of a node's Children has that node as its parent reference
CE_C1_ChildrenPointBack ==
    \A n \in made : \A k \in 1..Len(Children[n]) : parent[Children[n][k]] = n

\* C2: a node is listed in at most one Children list, and at most once there
CE_C2_SingleOwner == \A c \in made : Listed(c) <= 1

\* C3: the parent references of a node lead to a parentless node: no node is its
\* own ancestor
CE_C3_Acyclic == \A n \in made : Up(n, Cardinality(Nodes)) = None

\* C4: a node whose parent reference is p is, by identity, an element of
\* p.Children, whatever the names are
CE_C4_NoDanglingParent ==
    \A n \in made : parent[n] # None => Count(Children[parent[n]], n) >= 1

\* the graph is a forest with back references, and == tells the nodes apart
Consistent ==
    /\ \A n \in made : \A k \in 1..Len(Children[n]) : parent[Children[n][k]] = n
    /\ \A n \in made : Listed(n) <= 1
    /\ \A n \in made : parent[n] # None => Count(Children[parent[n]], n) = 1
    /\ \A n \in made : Up(n, Cardinality(Nodes)) = None
    /\ \A x, y \in made : x # y => ~NodeEq(Name, x, y)

\* C5: node.Parent = p for a node that is already a child of p changes neither a
\* Children list nor a parent reference (stated for a consistent graph, where no
\* other defect of the editing calls is involved)
CE_C5_SetSameParentNoOp ==
    [][\A self \in made :
          (/\ Consistent
           /\ parent[self] # None
           /\ DoSetParent(self, parent[self]))
          => (Children' = Children /\ parent' = parent)]_vars

\* the list s without its first element named target
WithoutFirstNamed(s, target) ==
    LET hits == {k \in 1..Len(s) : Name[s[k]] = target}
        first == CHOOSE k \in hits : \A j \in hits : k <= j
    IN  [k \in 1..(Len(s) - 1) |-> IF k < first THEN s[k] ELSE s[k + 1]]

FirstNamed(s, target) ==
    LET hits == {k \in 1..Len(s) : Name[s[k]] = target}
    IN  s[CHOOSE k \in hits : \A j \in hits : k <= j]

\* C6: remove(name) returns True iff a child had the name; then the first such
\* child leaves the list, its parent reference becomes None, and the rest keeps
\* its order; on False nothing changes
Thm_C6_RemoveByName ==
    [][\A self \in made, target \in Names :
          DoRemove(self, target) =>
            LET had == \E k \in 1..Len(Children[self]) :
                            Name[Children[self][k]] = target
            IN  /\ ret'.val = had
                /\ Name' = Name
                /\ had =>
                    LET c == FirstNamed(Children[self], target)
                    IN  /\ Children' = [Children EXCEPT ![self] =
                                            WithoutFirstNamed(@, target)]
                        /\ parent' = [parent EXCEPT ![c] = None]
                /\ ~had => (Children' = Children /\ parent' = parent)]_vars

\* a remove(name) has returned True and its node has kept a child
Wit_C6_RemoveByName ==
    /\ ret.op = "remove"
    /\ ret.val = TRUE
    /\ Children[ret.self] # <<>>

\* ================================================================ traversals
\* ------------------------------------------------------------ the input trees
\* parent maps of the forests over TreeNodes, each node numbered after its parent
ParentMaps == {p \in [TreeNodes -> {None} \cup TreeNodes] : \A n \in TreeNodes : p[n] < n}

\* the orderings of a set of nodes
Orderings(S) ==
    {s \in [1..Cardinality(S) -> S] : \A i, j \in DOMAIN s : i # j => s[i] # s[j]}

\* the Children lists that go with a parent map: every order of every child set
RECURSIVE ChildLists(_, _)
ChildLists(p, n) ==
    IF n = 0 THEN {<<>>}
    ELSE {Append(f, s) : f \in ChildLists(p, n - 1),
                         s \in Orderings({c \in TreeNodes : p[c] = n})}

\* ------------------------------------------------------------ list helpers
Last(s) == s[Len(s)]

Front(s) == SubSeq(s, 1, Len(s) - 1)

\* s[::-1]
Reversed(s) == [k \in 1..Len(s) |-> s[Len(s) + 1 - k]]

\* child_index_stack[-1] += 1
BumpLast(s) == [s EXCEPT ![Len(s)] = @ + 1]

\* -------------------------------------------------------------- generators
\* A generator is a record: kind, self, include_self, pc ("start" before its
\* first statement, "run" inside its loop, "done" once exhausted) and its local
\* variables.  A step is one pass of the loop: [g |-> the generator after it,
\* ys |-> the nodes it yields, in order].
preorder(self, include_self) ==
    [kind |-> "preorder", self |-> self, include_self |-> include_self,
     pc |-> "start", stack |-> <<>>]

preorder_step(g) ==
    IF g.pc = "start" THEN [g |-> [g EXCEPT !.pc = "run", !.stack = <<g.self>>], ys |-> <<>>]
    ELSE IF g.stack = <<>> THEN [g |-> [g EXCEPT !.pc = "done"], ys |-> <<>>]
    ELSE LET curr == Last(g.stack)
             rest == Front(g.stack)
         IN  [g |-> [g EXCEPT !.stack = rest \o Reversed(Children[curr])],
              ys |-> IF g.include_self \/ curr # g.self THEN <<curr>> ELSE <<>>]

iterTips(self, include_self) ==
    [kind |-> "iterTips", self |-> self, include_self |-> include_self,
     pc |-> "start", stack |-> <<>>]

\* iterTips with a slip: the easy case never yields self
iterTips_step_noself(g) ==
    IF g.pc = "start"
    THEN IF Children[g.self] = <<>>
         THEN [g |-> [g EXCEPT !.pc = "done"], ys |-> <<>>]
         ELSE [g |-> [g EXCEPT !.pc = "run", !.stack = <<g.self>>], ys |-> <<>>]
    ELSE IF g.stack = <<>> THEN [g |-> [g EXCEPT !.pc = "done"], ys |-> <<>>]
    ELSE LET curr == Last(g.stack)
             rest == Front(g.stack)
         IN  IF Children[curr] # <<>>
             THEN [g |-> [g EXCEPT !.stack = rest \o Reversed(Children[curr])],
                   ys |-> <<>>]
             ELSE [g |-> [g EXCEPT !.stack = rest], ys |-> <<curr>>]

iterTips_step(g) ==
    IF g.pc = "start"
    THEN IF Children[g.self] = <<>>
         THEN [g |-> [g EXCEPT !.pc = "done"],
               ys |-> IF g.include_self THEN <<g.self>> ELSE <<>>]
         ELSE [g |-> [g EXCEPT !.pc = "run", !.stack = <<g.self>>], ys |-> <<>>]
    ELSE IF g.stack = <<>> THEN [g |-> [g EXCEPT !.pc = "done"], ys |-> <<>>]
    ELSE LET curr == Last(g.stack)
             rest == Front(g.stack)
         IN  IF Children[curr] # <<>>
             THEN [g |-> [g EXCEPT !.stack = rest \o Reversed(Children[curr])],
                   ys |-> <<>>]
             ELSE [g |-> [g EXCEPT !.stack = rest], ys |-> <<curr>>]

\* tips(include_self) is list(iterTips(include_self))
tips(self, include_self) == iterTips(self, include_self)

postorder(self, include_self) ==
    [kind |-> "postorder", self |-> self, include_self |-> include_self,
     pc |-> "start", child_index_stack |-> <<>>, curr |-> self,
     curr_children_len |-> 0]

\* postorder with a slip: a child is yielded at once, its children never visited
postorder_step_flat(g) ==
    IF g.pc = "start"
    THEN [g |-> [g EXCEPT !.pc = "run", !.child_index_stack = <<0>>,
                          !.curr = g.self,
                          !.curr_children_len = Len(Children[g.self])],
          ys |-> <<>>]
    ELSE LET curr_index == Last(g.child_index_stack)
         IN  IF curr_index < g.curr_children_len
             THEN [g |-> [g EXCEPT !.child_index_stack = BumpLast(@)],
                   ys |-> <<Children[g.curr][curr_index + 1]>>]
             ELSE [g |-> [g EXCEPT !.pc = "done"],
                   ys |-> IF g.include_self THEN <<g.curr>> ELSE <<>>]

\* curr_children is the Children list of curr throughout
postorder_step(g) ==
    IF g.pc = "start"
    THEN [g |-> [g EXCEPT !.pc = "run", !.child_index_stack = <<0>>,
                          !.curr = g.self,
                          !.curr_children_len = Len(Children[g.self])],
          ys |-> <<>>]
    ELSE LET curr_index == Last(g.child_index_stack)
         IN  IF curr_index < g.curr_children_len
             THEN LET curr_child == Children[g.curr][curr_index + 1]
                  IN  IF Children[curr_child] # <<>>
                      THEN [g |-> [g EXCEPT
                                !.child_index_stack = Append(@, 0),
                                !.curr = curr_child,
                                !.curr_children_len = Len(Children[curr_child])],
                            ys |-> <<>>]
                      ELSE [g |-> [g EXCEPT !.child_index_stack = BumpLast(@)],
                            ys |-> <<curr_child>>]
             ELSE LET ys == IF g.include_self \/ g.curr # g.self
                            THEN <<g.curr>> ELSE <<>>
                  IN  IF g.curr = g.self
                      THEN [g |-> [g EXCEPT !.pc = "done"], ys |-> ys]
                      ELSE [g |-> [g EXCEPT
                                !.curr = parent[g.curr],
                                !.curr_children_len = Len(Children[parent[g.curr]]),
                                !.child_index_stack = BumpLast(Front(@))],
                            ys |-> ys]

pre_and_postorder(self, include_self) ==
    [kind |-> "pre_and_postorder", self |-> self, include_self |-> include_self,
     pc |-> "start", child_index_stack |-> <<>>, curr |-> self]

\* one pass of the loop of pre_and_postorder
pre_and_postorder_loop(g) ==
    LET curr_index == Last(g.child_index_stack)
        before == IF curr_index = 0 /\ (g.include_self \/ g.curr # g.self)
                  THEN <<g.curr>> ELSE <<>>
    IN  IF curr_index < Len(Children[g.curr])
             THEN LET curr_child == Children[g.curr][curr_index + 1]
                  IN  IF Children[curr_child] # <<>>
                      THEN [g |-> [g EXCEPT
                                !.child_index_stack = Append(@, 0),
                                !.curr = curr_child],
                            ys |-> before]
                      ELSE [g |-> [g EXCEPT !.child_index_stack = BumpLast(@)],
                            ys |-> before \o <<curr_child>>]
             ELSE LET ys == before \o (IF g.include_self \/ g.curr # g.self
                                       THEN <<g.curr>> ELSE <<>>)
                  IN  IF g.curr = g.self
                      THEN [g |-> [g EXCEPT !.pc = "done"], ys |-> ys]
                      ELSE [g |-> [g EXCEPT
                                !.curr = parent[g.curr],
                                !.child_index_stack = BumpLast(Front(@))],
                            ys |-> ys]

\* pre_and_postorder with a slip: no simple case for a start node without children
pre_and_postorder_step_nobail(g) ==
    IF g.pc = "start"
    THEN [g |-> [g EXCEPT !.pc = "run", !.child_index_stack = <<0>>,
                          !.curr = g.self],
          ys |-> <<>>]
    ELSE pre_and_postorder_loop(g)

pre_and_postorder_step(g) ==
    IF g.pc = "start"
    THEN IF Children[g.self] = <<>>
         THEN [g |-> [g EXCEPT !.pc = "done"],
               ys |-> IF g.include_self THEN <<g.self>> ELSE <<>>]
         ELSE [g |-> [g EXCEPT !.pc = "run", !.child_index_stack = <<0>>,
                               !.curr = g.self],
               ys |-> <<>>]
    ELSE pre_and_postorder_loop(g)

\* traverse: the generator the three flags select
traverse(self, self_before, self_after, include_self) ==
    IF self_before
    THEN IF self_after THEN pre_and_postorder(self, include_self)
                       ELSE preorder(self, include_self)
    ELSE IF self_after THEN postorder(self, include_self)
                       ELSE tips(self, include_self)

\* ------------------------------------------------------- traverse_recursive
\* The generator is the stack of its nested calls.  A frame is [node, pc, idx,
\* include_self]: pc "start" before the test of node.Children, "loop" inside
\* "for child in self.Children" with idx the position of the list iterator,
\* "after" behind the loop.  The iterator reads the list as it is when asked.
\* traverse_recursive with a slip: include_self is not passed on to the call
traverse_recursive_with_self(self, self_before, self_after, include_self) ==
    [kind |-> "traverse_recursive", self |-> self, include_self |-> include_self,
     self_before |-> self_before, self_after |-> self_after, pc |-> "run",
     frames |-> <<[node |-> self, pc |-> "start", idx |-> 0,
                   include_self |-> TRUE]>>]

traverse_recursive(self, self_before, self_after, include_self) ==
    [kind |-> "traverse_recursive", self |-> self, include_self |-> include_self,
     self_before |-> self_before, self_after |-> self_after, pc |-> "run",
     frames |-> <<[node |-> self, pc |-> "start", idx |-> 0,
                   include_self |-> include_self]>>]

\* next(): run the innermost call on to the next yield, or to exhaustion
RECURSIVE traverse_recursive_next(_)
traverse_recursive_next(g) ==
    IF g.frames = <<>> THEN [g |-> [g EXCEPT !.pc = "done"], ys |-> <<>>]
    ELSE LET f == Last(g.frames)
             rest == Front(g.frames)
         IN  CASE f.pc = "start" ->
                    IF Children[f.node] # <<>>
                    THEN LET g1 == [g EXCEPT !.frames =
                                        Append(rest, [f EXCEPT !.pc = "loop"])]
                         IN  IF g.self_before /\ f.include_self
                             THEN [g |-> g1, ys |-> <<f.node>>]
                             ELSE traverse_recursive_next(g1)
                    ELSE IF f.include_self
                         THEN [g |-> [g EXCEPT !.frames = rest], ys |-> <<f.node>>]
                         ELSE traverse_recursive_next([g EXCEPT !.frames = rest])
               [] f.pc = "loop" ->
                    IF f.idx < Len(Children[f.node])
                    THEN traverse_recursive_next([g EXCEPT !.frames =
                            rest \o <<[f EXCEPT !.idx = @ + 1],
                                      [node |-> Children[f.node][f.idx + 1],
                                       pc |-> "start", idx |-> 0,
                                       include_self |-> TRUE]>>])
                    ELSE traverse_recursive_next([g EXCEPT !.frames =
                            Append(rest, [f EXCEPT !.pc = "after"])])
               [] f.pc = "after" ->
                    IF g.self_after /\ f.include_self
                    THEN [g |-> [g EXCEPT !.frames = rest], ys |-> <<f.node>>]
                    ELSE traverse_recursive_next([g EXCEPT !.frames = rest])

step(g) ==
    CASE g.kind = "preorder" -> preorder_step(g)
      [] g.kind = "postorder" -> postorder_step(g)
      [] g.kind = "pre_and_postorder" -> pre_and_postorder_step(g)
      [] g.kind = "iterTips" -> iterTips_step(g)
      [] g.kind = "traverse_recursive" -> traverse_recursive_next(g)

\* list(g): everything the generator yields from here on
RECURSIVE Exhaust(_)
Exhaust(g) ==
    IF g.pc = "done" THEN <<>>
    ELSE LET r == step(g) IN r.ys \o Exhaust(r.g)

\* ------------------------------------------------- the traversal specification
\* the consumer asks the generator for more
Resume ==
    /\ gen.pc # "done"
    /\ LET r == step(gen)
       IN  /\ gen' = r.g
           /\ out' = out \o r.ys
    /\ UNCHANGED <<made, Name, parent, Children, ret, ops, params, dicts>>

PreorderStep ==
    /\ gen.kind = "preorder"
    /\ Resume

PostorderStep ==
    /\ gen.kind = "postorder"
    /\ Resume

PreAndPostorderStep ==
    /\ gen.kind = "pre_and_postorder"
    /\ Resume

IterTipsStep ==
    /\ gen.kind = "iterTips"
    /\ Resume

InitTrav ==
    /\ made = TreeNodes
    /\ Name = [n \in TreeNodes |-> NoName]
    /\ parent \in ParentMaps
    /\ Children \in ChildLists(parent, TreeSize)
    /\ ret = NoValue
    /\ ops = 0
    /\ \E self \in TreeNodes, self_before \in BOOLEAN, self_after \in BOOLEAN,
          include_self \in BOOLEAN :
            gen = traverse(self, self_before, self_after, include_self)
    /\ out = <<>>
    /\ params = [n \in TreeNodes |-> n]
    /\ dicts = [d \in TreeNodes |-> NoLength]

NextTrav ==
    \/ PreorderStep
    \/ PostorderStep
    \/ PreAndPostorderStep
    \/ IterTipsStep

\* the consumer of a generator keeps asking until it is exhausted
SpecTrav == InitTrav /\ [][NextTrav]_vars /\ WF_vars(NextTrav)

\* ------------------------------------------------------------ tree relations
\* a is a proper ancestor of d (by parent references)
IsAncestor(a, d) == \E k \in 1..Cardinality(DOMAIN parent) : Up(d, k) = a

\* the nodes of the subtree rooted at n
Subtree(n) == {n} \cup {d \in DOMAIN parent : IsAncestor(n, d)}

\* the positions of node x in the sequence s
Positions(s, x) == {k \in 1..Len(s) : s[k] = x}

\* the nodes a finished traversal from gen.self has to cover
Wanted == IF gen.include_self THEN Subtree(gen.self) ELSE Subtree(gen.self) \ {gen.self}

\* a sits left of b in the Children list of their common parent
LeftSibling(a, b) ==
    \E n \in DOMAIN Children : \E i, j \in 1..Len(Children[n]) :
        i < j /\ Children[n][i] = a /\ Children[n][j] = b

\* what a finished postorder has yielded: every wanted node once, a node after
\* all its descendants, and a subtree after the subtrees of its left siblings
PostorderRight ==
    (gen.kind = "postorder" /\ gen.pc = "done") =>
        /\ \A n \in DOMAIN parent :
              Count(out, n) = IF n \in Wanted THEN 1 ELSE 0
        /\ \A i, j \in 1..Len(out) : IsAncestor(out[j], out[i]) => i < j
        /\ \A i, j \in 1..Len(out) :
              (\E a \in Subtree(gen.self), b \in Subtree(gen.self) :
                    /\ LeftSibling(a, b)
                    /\ out[i] \in Subtree(a)
                    /\ out[j] \in Subtree(b)) => i < j

\* C7: postorder() from any node, with or without a parent, comes to an end and
\* has then yielded every node of the subtree exactly once, each after all its
\* descendants and left to right; include_self=False leaves out the start node only
Thm_C7_Postorder ==
    /\ []PostorderRight
    /\ (gen.kind = "postorder") ~> (gen.pc = "done")

\* a postorder has finished at a start node that has a parent and grandchildren
Wit_C7_Postorder ==
    /\ gen.kind = "postorder"
    /\ gen.pc = "done"
    /\ parent[gen.self] # None
    /\ \E d \in DOMAIN parent : parent[d] # None /\ parent[parent[d]] = gen.self
    /\ Last(out) = gen.self

\* C8: a finished pre_and_postorder() has yielded every node with children twice,
\* before and after all of its descendants, and every tip once (the start node
\* not at all under include_self=False)
Thm_C8_PreAndPostorder ==
    (gen.kind = "pre_and_postorder" /\ gen.pc = "done") =>
        /\ \A n \in DOMAIN parent :
              Count(out, n) = IF n \notin Wanted THEN 0
                              ELSE IF Children[n] # <<>> THEN 2 ELSE 1
        /\ \A n \in Wanted : \A d \in Subtree(n) \ {n} :
              \A i \in Positions(out, d) :
                  /\ \E k \in Positions(out, n) : k < i
                  /\ \E k \in Positions(out, n) : i < k

\* a pre_and_postorder has finished on a tree whose start node has an internal
\* first child
Wit_C8_PreAndPostorder ==
    /\ gen.kind = "pre_and_postorder"
    /\ gen.pc = "done"
    /\ gen.include_self
    /\ Children[gen.self] # <<>>
    /\ Children[Children[gen.self][1]] # <<>>
    /\ Len(out) >= 5

\* the full traversal that goes with the tips-only one: traverse() with the same
\* include_self
FullTraversal == Exhaust(traverse(gen.self, TRUE, FALSE, gen.include_self))

RecursiveNext ==
    /\ gen.kind = "traverse_recursive"
    /\ Resume

\* between two yields the caller detaches a node it has been given: n.Parent = None
Detach(n) ==
    /\ gen.kind = "traverse_recursive"
    /\ gen.pc # "done"
    /\ Count(out, n) >= 1
    /\ parent[n] # None
    /\ LET h == set_parent(Heap, n, None)
       IN  /\ parent' = h.par
           /\ Children' = h.ch
    /\ UNCHANGED <<made, Name, ret, ops, gen, out, params, dicts>>

InitRec ==
    /\ made = TreeNodes
    /\ Name = [n \in TreeNodes |-> NoName]
    /\ parent \in ParentMaps
    /\ Children \in ChildLists(parent, TreeSize)
    /\ ret = NoValue
    /\ ops = 0
    /\ \E self \in TreeNodes, self_before \in BOOLEAN, self_after \in BOOLEAN,
          include_self \in BOOLEAN :
            gen = traverse_recursive(self, self_before, self_after, include_self)
    /\ out = <<>>
    /\ params = [n \in TreeNodes |-> n]
    /\ dicts = [d \in TreeNodes |-> NoLength]

NextRec ==
    \/ RecursiveNext
    \/ \E n \in TreeNodes : Detach(n)

SpecRec == InitRec /\ [][NextRec]_vars

\* C10: when the caller of a postorder traverse_recursive detaches nodes it has
\* already been given, every node still attached below the start node has been
\* yielded exactly once by the time the generator is exhausted
CE_C10_RecursiveSurvivesDetach ==
    (/\ gen.kind = "traverse_recursive"
     /\ ~gen.self_before /\ gen.self_after
     /\ gen.pc = "done") =>
        \A n \in Wanted : Count(out, n) = 1

\* ================================================== queries on finished trees
\* One call on a tree that is not being edited: the call is an action, its
\* arguments and its result are recorded in ret.
Called(op, self, arg, val) ==
    /\ ops = 0
    /\ ops' = 1
    /\ ret' = [op |-> op, self |-> self, arg |-> arg, val |-> val]
    /\ UNCHANGED <<made, Name, parent, Children, gen, out, params, dicts>>

\* the while loop of ancestors(), from curr on
RECURSIVE ancestors_loop(_)
ancestors_loop(curr) ==
    IF curr = None THEN <<>> ELSE <<curr>> \o ancestors_loop(parent[curr])

ancestors(self) == ancestors_loop(parent[self])

\* the while loop of lastCommonAncestor, from curr on
RECURSIVE lca_loop(_, _)
lca_loop(my_lineage, curr) ==
    IF curr = None THEN None
    ELSE IF curr \in my_lineage THEN curr
    ELSE lca_loop(my_lineage, parent[curr])

\* lastCommonAncestor with a slip: the lineage is searched with ==, not by id()
lastCommonAncestor_by_name(self, other) ==
    LET lineage == <<self>> \o ancestors(self)
        RECURSIVE loop(_)
        loop(curr) ==
            IF curr = None THEN None
            ELSE IF IndexEq(Name, lineage, curr) # 0 THEN curr
            ELSE loop(parent[curr])
    IN  loop(other)

\* my_lineage is the set of the id()s of self and its ancestors
lastCommonAncestor(self, other) ==
    lca_loop(Range(<<self>> \o ancestors(self)), other)

DoLastCommonAncestor(self, other) ==
    Called("lastCommonAncestor", self, other, lastCommonAncestor(self, other))

\* trees whose nodes carry any names, equal ones included
InitLca ==
    /\ made = TreeNodes
    /\ Name \in [TreeNodes -> Names]
    /\ parent \in ParentMaps
    /\ Children \in ChildLists(parent, TreeSize)
    /\ ret = NoValue
    /\ ops = 0
    /\ gen = NoGen
    /\ out = <<>>
    /\ params = [n \in TreeNodes |-> n]
    /\ dicts = [d \in TreeNodes |-> NoLength]

NextLca == \E self \in made, other \in made : DoLastCommonAncestor(self, other)

SpecLca == InitLca /\ [][NextLca]_vars

\* n is d or an ancestor of d
AncestorOrSelf(n, d) == n = d \/ IsAncestor(n, d)

\* the nodes that are ancestor-or-self of both a and b
CommonAncestors(a, b) == {n \in made : AncestorOrSelf(n, a) /\ AncestorOrSelf(n, b)}

\* C11: lastCommonAncestor(self, other) returns None when the two nodes have no
\* common ancestor-or-self, and otherwise the common one that lies below all the
\* others, whatever the names are; that is self when other is in self's subtree
Thm_C11_LastCommonAncestor ==
    ret.op = "lastCommonAncestor" =>
        LET common == CommonAncestors(ret.self, ret.arg)
        IN  /\ common = {} => ret.val = None
            /\ common # {} =>
                  /\ ret.val \in common
                  /\ \A m \in common : AncestorOrSelf(m, ret.val)
            /\ AncestorOrSelf(ret.self, ret.arg) => ret.val = ret.self

\* the answer is a proper ancestor of both nodes, and the three have one name
Wit_C11_LastCommonAncestor ==
    /\ ret.op = "lastCommonAncestor"
    /\ ret.val \notin {None, ret.self, ret.arg}
    /\ Name[ret.self] = "a" /\ Name[ret.arg] = "a" /\ Name[ret.val] = "a"
    /\ parent[ret.self] # parent[ret.arg]

\* ======================================================================= copy
\* the number of nodes of the trees that are copied
CopySize == 3

CopyNodes == 1..CopySize

\* parent maps and Children lists of the forests over the nodes S
ParentMapsOf(S) == {p \in [S -> {None} \cup S] : \A n \in S : p[n] < n}

RECURSIVE ChildListsOf(_, _)
ChildListsOf(p, n) ==
    IF n = 0 THEN {<<>>}
    ELSE {Append(f, s) : f \in ChildListsOf(p, n - 1),
                         s \in Orderings({c \in DOMAIN p : p[c] = n})}

\* A full heap also holds the params references and the dict objects:
\* [nm, par, ch, err, pm, dt].  New objects take the next free identity.
FullHeap ==
    [nm |-> Name, par |-> parent, ch |-> Children, err |-> FALSE,
     pm |-> params, dt |-> dicts]

NewNode(h) == Cardinality(DOMAIN h.nm) + 1

NewDict(h) == Cardinality(DOMAIN h.dt) + 1

\* TreeNode(Name=nm, Params=the dict object d), without Children or Parent
Construct(h, nm, d) ==
    LET n == NewNode(h)
    IN  [h EXCEPT !.nm = @ @@ (n :> nm), !.par = @ @@ (n :> None),
                  !.ch = @ @@ (n :> <<>>), !.pm = @ @@ (n :> d)]

\* a new dict object with the contents v
MakeDict(h, v) == [h EXCEPT !.dt = @ @@ (NewDict(h) :> v)]

\* copy with a slip: the attributes are copied shallowly, params is shared
copy_attrs_shallow(h, self) == Construct(h, h.nm[self], h.pm[self])

\* the head of copy(): result = self.__class__(), then every attribute but
\* _parent and Children is replaced by a deepcopy, so that params is a new dict
\* with the contents of self.params
copy_attrs(h, self) ==
    LET d == NewDict(h)
    IN  Construct(MakeDict(h, h.dt[h.pm[self]]), h.nm[self], d)

\* copy(): [heap, result]
RECURSIVE copy(_, _)
RECURSIVE copy_children(_, _, _)
copy_children(h, result, kids) ==
    IF kids = <<>> THEN h
    ELSE LET c == copy(h, Head(kids))
         IN  copy_children(append(c.heap, result, c.result), result, Tail(kids))

copy(h, self) ==
    LET result == NewNode(h)
        h1 == copy_attrs(h, self)
    IN  [heap |-> copy_children(h1, result, h.ch[self]), result |-> result]

\* self.params["length"] = value
set_length(h, self, value) == [h EXCEPT !.dt[h.pm[self]] = value]

\* ------------------------------------------------------ the copy specification
CommitFull(h, r) ==
    /\ ops' = ops + 1
    /\ made' = DOMAIN h.nm
    /\ Name' = h.nm
    /\ parent' = h.par
    /\ Children' = h.ch
    /\ params' = h.pm
    /\ dicts' = h.dt
    /\ ret' = IF h.err THEN Raised ELSE r
    /\ UNCHANGED <<gen, out>>

DoCopy(self) ==
    /\ ops = 0
    /\ LET c == copy(FullHeap, self)
       IN  CommitFull(c.heap, [op |-> "copy", self |-> self, arg |-> None,
                               val |-> c.result])

\* the nodes copy() has made
Copies == made \ CopyNodes

\* after the copy, one edit that is given nodes of the copy only
CopyAppend(self, i) ==
    /\ ops = 1
    /\ CommitFull(append(FullHeap, self, i), ret)

CopySetParent(self, P) ==
    /\ ops = 1
    /\ CommitFull(set_parent(FullHeap, self, P), ret)

CopyPop(self, k) ==
    /\ ops = 1
    /\ k \in 1..Len(Children[self])
    /\ CommitFull(pop(FullHeap, self, k).heap, ret)

CopyRemove(self, target) ==
    /\ ops = 1
    /\ CommitFull(remove(FullHeap, self, target).heap, ret)

CopySetLength(self, value) ==
    /\ ops = 1
    /\ CommitFull(set_length(FullHeap, self, value), ret)

\* a forest whose nodes carry any names; node n has the length n
InitCopy ==
    /\ made = CopyNodes
    /\ Name \in [CopyNodes -> Names]
    /\ parent \in ParentMapsOf(CopyNodes)
    /\ Children \in ChildListsOf(parent, CopySize)
    /\ ret = NoValue
    /\ ops = 0
    /\ gen = NoGen
    /\ out = <<>>
    /\ params = [n \in CopyNodes |-> n]
    /\ dicts = [d \in CopyNodes |-> d]

NextCopy ==
    \/ \E self \in made : DoCopy(self)
    \/ \E self \in Copies, i \in Copies : CopyAppend(self, i)
    \/ \E self \in Copies, P \in Copies \cup {None} : CopySetParent(self, P)
    \/ \E self \in Copies, k \in 1..CopySize : CopyPop(self, k)
    \/ \E self \in Copies, target \in Names : CopyRemove(self, target)
    \/ \E self \in Copies, value \in {NoLength, 0} : CopySetLength(self, value)

SpecCopy == InitCopy /\ [][NextCopy]_vars

\* the subtrees at a and b have the same shape, names and params contents
RECURSIVE SameTree(_, _)
SameTree(a, b) ==
    /\ Name[a] = Name[b]
    /\ dicts[params[a]] = dicts[params[b]]
    /\ Len(Children[a]) = Len(Children[b])
    /\ \A k \in 1..Len(Children[a]) : SameTree(Children[a][k], Children[b][k])

\* what copy() has returned: a root without parent over new nodes only, each
\* listed once by its parent, equal to the original subtree in shape, names and
\* params, with dict objects no other node refers to
CopyRight ==
    (ret.op = "copy" /\ ops = 1) =>
        /\ ret.val \in Copies
        /\ parent[ret.val] = None
        /\ Subtree(ret.val) = Copies
        /\ Cardinality(Copies) = Cardinality(Subtree(ret.self))
        /\ SameTree(ret.self, ret.val)
        /\ \A c \in Copies \ {ret.val} :
              parent[c] \in Copies /\ Count(Children[parent[c]], c) = 1
        /\ \A c \in Copies : \A n \in made \ {c} : params[c] # params[n]

\* a step leaves every node of the original forest, and its params, as they were
OriginalKept ==
    \A n \in CopyNodes :
        /\ Name'[n] = Name[n]
        /\ parent'[n] = parent[n]
        /\ Children'[n] = Children[n]
        /\ params'[n] = params[n]
        /\ dicts'[params[n]] = dicts[params[n]]

TipNames == {"a", "b"}

\* the names of the tips of the larger example
ExampleTipNames == {"a", "b", "c"}

\* reduce(or_, [c.__leaf_set for c in i.Children]): the union over the children
UnionOver(leaf_set, kids) == UNION {leaf_set[kids[k]] : k \in 1..Len(kids)}

\* subsets with a slip: a leaf set is kept whatever its size
RECURSIVE subsets_loop_unfiltered(_, _, _)
subsets_loop_unfiltered(order, leaf_set, sets) ==
    IF order = <<>> THEN sets
    ELSE LET i == Head(order)
         IN  IF Children[i] = <<>>
             THEN subsets_loop_unfiltered(Tail(order), leaf_set @@ (i :> {Name[i]}), sets)
             ELSE LET ls == UnionOver(leaf_set, Children[i])
                  IN  subsets_loop_unfiltered(Tail(order), leaf_set @@ (i :> ls),
                                              sets \cup {ls})

\* the for loop of subsets() over the nodes still to come; leaf_set holds the
\* __leaf_set attributes set so far, sets the list of sets (as its frozenset)
RECURSIVE subsets_loop(_, _, _)
subsets_loop(order, leaf_set, sets) ==
    IF order = <<>> THEN sets
    ELSE LET i == Head(order)
         IN  IF Children[i] = <<>>
             THEN subsets_loop(Tail(order), leaf_set @@ (i :> {Name[i]}), sets)
             ELSE LET ls == UnionOver(leaf_set, Children[i])
                  IN  subsets_loop(Tail(order), leaf_set @@ (i :> ls),
                                   IF Cardinality(ls) > 1 THEN sets \cup {ls} ELSE sets)

subsets(self) ==
    subsets_loop(Exhaust(traverse(self, FALSE, TRUE, FALSE)), <<>>, {})

\* subset(): the names of self.tips()
subset(self) == {Name[t] : t \in Range(Exhaust(tips(self, FALSE)))}

\* A result of compareBySubsets is the fraction num/den: the int 1 is 1/1, and
\* 1 - 2*n/float(t) is (t - 2n)/t.  Division by t = 0 raises ZeroDivisionError.
Sentinel == [num |-> 1, den |-> 1]

\* compareBySubsets with a slip: the test for no subsets at all is missing
compareBySubsets_unguarded(self, other, exclude_absent_taxa) ==
    LET in_both == subset(self) \cap subset(other)
        self_sets == IF exclude_absent_taxa
                     THEN {s \in {i \cap in_both : i \in subsets(self)} :
                                Cardinality(s) > 1}
                     ELSE subsets(self)
        other_sets == IF exclude_absent_taxa
                      THEN {s \in {i \cap in_both : i \in subsets(other)} :
                                Cardinality(s) > 1}
                      ELSE subsets(other)
        total_subsets == Cardinality(self_sets) + Cardinality(other_sets)
        intersection_length == Cardinality(self_sets \cap other_sets)
    IN  IF total_subsets = 0 THEN Raised
        ELSE [num |-> total_subsets - 2 * intersection_length, den |-> total_subsets]

\* compareBySubsets with a slip: the intersection is counted once, not twice
compareBySubsets_once(self, other, exclude_absent_taxa) ==
    LET in_both == subset(self) \cap subset(other)
        self_sets == IF exclude_absent_taxa
                     THEN {s \in {i \cap in_both : i \in subsets(self)} :
                                Cardinality(s) > 1}
                     ELSE subsets(self)
        other_sets == IF exclude_absent_taxa
                      THEN {s \in {i \cap in_both : i \in subsets(other)} :
                                Cardinality(s) > 1}
                      ELSE subsets(other)
        total_subsets == Cardinality(self_sets) + Cardinality(other_sets)
        intersection_length == Cardinality(self_sets \cap other_sets)
    IN  IF total_subsets = 0 THEN Sentinel
        ELSE [num |-> total_subsets - intersection_length, den |-> total_subsets]

compareBySubsets(self, other, exclude_absent_taxa) ==
    LET in_both == subset(self) \cap subset(other)
        self_sets == IF exclude_absent_taxa
                     THEN {s \in {i \cap in_both : i \in subsets(self)} :
                                Cardinality(s) > 1}
                     ELSE subsets(self)
        other_sets == IF exclude_absent_taxa
                      THEN {s \in {i \cap in_both : i \in subsets(other)} :
                                Cardinality(s) > 1}
                      ELSE subsets(other)
        total_subsets == Cardinality(self_sets) + Cardinality(other_sets)
        intersection_length == Cardinality(self_sets \cap other_sets)
    IN  IF total_subsets = 0 THEN Sentinel
        ELSE [num |-> total_subsets - 2 * intersection_length, den |-> total_subsets]

DoSubsets(self) == Called("subsets", self, None, subsets(self))

DoCompareBySubsets(self, other, exclude_absent_taxa) ==
    Called("compareBySubsets", self,
           [other |-> other, exclude_absent_taxa |-> exclude_absent_taxa],
           compareBySubsets(self, other, exclude_absent_taxa))

\* the forests of TreeSize nodes: tips are named, nodes with children are not
\* (only the names of tips are read)
InitSubsetsAny ==
    /\ made = TreeNodes
    /\ parent \in ParentMaps
    /\ Children \in ChildLists(parent, TreeSize)
    /\ Name \in {f \in [TreeNodes -> TipNames \cup {NoName}] :
                    \A n \in TreeNodes : (f[n] = NoName) <=> (Children[n] # <<>>)}
    /\ params = [n \in TreeNodes |-> n]
    /\ dicts = [d \in TreeNodes |-> NoLength]

\* the larger example: the trees (((t4,t5),t6)) and ((t9,t10)) side by side,
\* their five tips named in every way
InitSubsetsExample ==
    /\ parent = <<None, 1, 2, 3, 3, 2, None, 7, 8, 8>>
    /\ made = DOMAIN parent
    /\ Children = <<<<2>>, <<3, 6>>, <<4, 5>>, <<>>, <<>>, <<>>,
                    <<8>>, <<9, 10>>, <<>>, <<>>>>
    /\ Name \in {f \in [DOMAIN parent -> ExampleTipNames \cup {NoName}] :
                    \A n \in DOMAIN parent : (f[n] = NoName) <=> (Children[n] # <<>>)}
    /\ params = [n \in DOMAIN parent |-> n]
    /\ dicts = [d \in DOMAIN parent |-> NoLength]

InitSubsets ==
    /\ InitSubsetsAny \/ InitSubsetsExample
    /\ ret = NoValue
    /\ ops = 0
    /\ gen = NoGen
    /\ out = <<>>

NextSubsets ==
    \/ \E self \in made : DoSubsets(self)
    \/ \E self \in made, other \in made, exclude_absent_taxa \in BOOLEAN :
            DoCompareBySubsets(self, other, exclude_absent_taxa)

SpecSubsets == InitSubsets /\ [][NextSubsets]_vars

\* the names of the tips in the subtree of n (n itself if it is a tip)
TipNameSet(n) == {Name[t] : t \in {d \in Subtree(n) : Children[d] = <<>>}}

\* the tip-name sets with more than one name of the nodes with children
\* strictly below self
Bipartitions(self) ==
    {TipNameSet(m) : m \in {d \in Subtree(self) \ {self} :
                                Children[d] # <<>> /\ Cardinality(TipNameSet(d)) > 1}}

\* C13: subsets() is the set of the tip-name sets of more than one name of the
\* nodes with children strictly below self; no element is empty or a singleton
Thm_C13_Subsets ==
    ret.op = "subsets" =>
        /\ ret.val = Bipartitions(ret.self)
        /\ \A s \in ret.val : Cardinality(s) > 1

\* subsets() has returned sets for a tree in which a node with children has
\* tips of one name only
Wit_C13_Subsets ==
    /\ ret.op = "subsets"
    /\ ret.val # {}
    /\ \E m \in Subtree(ret.self) \ {ret.self} :
          Children[m] # <<>> /\ Cardinality(TipNameSet(m)) = 1

\* C14 as claimed: compareBySubsets(T, T) is 0 for every tree T
CE_C14_CompareSelfZero ==
    (ret.op = "compareBySubsets" /\ ret.arg.other = ret.self) => ret.val.num = 0

\* C14 as amended: compareBySubsets(T, T) is 0 when subsets(T) is not empty,
\* and the sentinel 1 when it is
Thm_C14_CompareSelf ==
    (ret.op = "compareBySubsets" /\ ret.arg.other = ret.self) =>
        IF Bipartitions(ret.self) # {}
        THEN ret.val # Raised /\ ret.val.num = 0 /\ ret.val.den > 0
        ELSE ret.val = Sentinel

\* a tree with two different bipartitions has been compared with itself
Wit_C14_CompareSelf ==
    /\ ret.op = "compareBySubsets"
    /\ ret.arg.other = ret.self
    /\ Cardinality(Bipartitions(ret.self)) = 2
    /\ ret.val.num = 0

\* the bipartitions compareBySubsets counts for node n when called on (a, b)
Compared(n, a, b, exclude_absent_taxa) ==
    IF exclude_absent_taxa
    THEN {s \in {i \cap (TipNameSet(a) \cap TipNameSet(b)) : i \in Bipartitions(n)} :
            Cardinality(s) > 1}
    ELSE Bipartitions(n)

\* C15: compareBySubsets never raises; with A and B the (filtered) bipartition
\* sets it is 1 when both are empty and 1 - 2|A /\ B| / (|A| + |B|) otherwise,
\* which lies in [0, 1]; it is 1 for trees without a common tip name
Thm_C15_CompareNoDivision ==
    ret.op = "compareBySubsets" =>
        LET A == Compared(ret.self, ret.self, ret.arg.other, ret.arg.exclude_absent_taxa)
            B == Compared(ret.arg.other, ret.self, ret.arg.other,
                          ret.arg.exclude_absent_taxa)
        IN  /\ ret.val # Raised
            /\ ret.val.den > 0
            /\ 0 <= ret.val.num /\ ret.val.num <= ret.val.den
            /\ (A = {} /\ B = {}) => ret.val = Sentinel
            /\ (A # {} \/ B # {}) =>
                  /\ ret.val.den = Cardinality(A) + Cardinality(B)
                  /\ ret.val.num = ret.val.den - 2 * Cardinality(A \cap B)
            /\ (Children[ret.self] # <<>> /\ Children[ret.arg.other] # <<>>
                /\ TipNameSet(ret.self) \cap TipNameSet(ret.arg.other) = {}) =>
                  ret.val.num = ret.val.den

\* two trees that both have bipartitions, none of which survives the filter,
\* have been compared
Wit_C15_CompareNoDivision ==
    /\ ret.op = "compareBySubsets"
    /\ ret.arg.exclude_absent_taxa
    /\ Bipartitions(ret.self) # {}
    /\ Bipartitions(ret.arg.other) # {}
    /\ ret.val = Sentinel
    /\ parent[ret.self] = None /\ parent[ret.arg.other] = None

\* ============================================================ branch lengths
\* PhyloNode.Length: params.get("length", None)
Length(n) == dicts[params[n]]

\* the length node n may carry: none, or one that tells it from every other
LengthOf(n) == 2 ^ (n - 1)

\* "if x.Length:" holds for a length that is neither None nor 0
Truthy(v) == v # NoLength /\ v # 0

\* the inner while loop of distance(): the climb from curr up to other
RECURSIVE distance_climb(_, _, _)
distance_climb(curr, other, count) ==
    IF curr = other THEN count
    ELSE distance_climb(parent[curr], other,
                        IF Truthy(Length(curr)) THEN count + Length(curr) ELSE count)

\* distance with a slip: the lengths on self's side are left out
RECURSIVE distance_loop_one_side(_, _, _, _)
distance_loop_one_side(self, self_anc_dict, other, count) ==
    IF other = None THEN NoLength
    ELSE IF other \in self_anc_dict THEN count
    ELSE distance_loop_one_side(self, self_anc_dict, parent[other],
                       IF Truthy(Length(other)) THEN count + Length(other) ELSE count)

\* the outer while loop of distance(), from other on; None is NoLength
RECURSIVE distance_loop(_, _, _, _)
distance_loop(self, self_anc_dict, other, count) ==
    IF other = None THEN NoLength
    ELSE IF other \in self_anc_dict THEN distance_climb(self, other, count)
    ELSE distance_loop(self, self_anc_dict, parent[other],
                       IF Truthy(Length(other)) THEN count + Length(other) ELSE count)

distance(self, other) ==
    IF self = other THEN 0
    ELSE distance_loop(self, Range(ancestors(self)) \cup {self}, other, 0)

DoDistance(self, other) == Called("distance", self, other, distance(self, other))

\* ------------------------------------------------------- tipToTipDistances
\* the assignment f[k] = v to an attribute that may be set already
Put(f, k, v) == (k :> v) @@ f

MinOf(S) == CHOOSE x \in S : \A y \in S : x <= y

MaxOf(S) == CHOOSE x \in S : \A y \in S : x >= y

\* comb(items, 2): the pairs of two items, the earlier one first
comb2(items) ==
    UNION {{<<items[i], items[j]>> : j \in (i + 1)..Len(items)} : i \in 1..Len(items)}

\* The locals of tipToTipDistances are a record s: start and stop hold the
\* __start and __stop attributes set so far, tipdistances and result the two
\* arrays (indices from 0).
\* "for child in node.Children": tipdistances[child.__start : child.__stop] += child_len
RECURSIVE ttd_children(_, _, _)
ttd_children(s, kids, default_length) ==
    IF kids = <<>> THEN s
    ELSE LET child == Head(kids)
             child_len == IF Length(child) # NoLength THEN Length(child)
                          ELSE default_length
         IN  ttd_children(
                [s EXCEPT !.tipdistances =
                    [k \in DOMAIN @ |->
                        IF s.start[child] <= k /\ k < s.stop[child]
                        THEN @[k] + child_len ELSE @[k]]],
                Tail(kids), default_length)

\* update_result(): tips of different children get the sum of their distances
update_result(s, node) ==
    [s EXCEPT !.result =
        [p \in DOMAIN @ |->
            IF \E c \in comb2(Children[node]) :
                    /\ s.start[c[1]] <= p[1] /\ p[1] < s.stop[c[1]]
                    /\ s.start[c[2]] <= p[2] /\ p[2] < s.stop[c[2]]
            THEN s.tipdistances[p[1]] + s.tipdistances[p[2]]
            ELSE @[p]]]

\* the body of the loop with a slip: a single child is passed over, its length
\* is not added
ttd_node_skip_single(s, node, default_length) ==
    IF Children[node] = <<>> THEN s
    ELSE LET s1 == IF Len(Children[node]) > 1
                   THEN ttd_children(s, Children[node], default_length)
                   ELSE s
             s2 == [s1 EXCEPT
                      !.start = Put(@, node, MinOf({s1.start[c] : c \in Range(Children[node])})),
                      !.stop = Put(@, node, MaxOf({s1.stop[c] : c \in Range(Children[node])}))]
         IN  IF Len(Children[node]) > 1 THEN update_result(s2, node) ELSE s2

\* the body of "for node in self.traverse(self_before=False, self_after=True)"
ttd_node(s, node, default_length) ==
    IF Children[node] = <<>> THEN s
    ELSE LET s1 == ttd_children(s, Children[node], default_length)
             s2 == [s1 EXCEPT
                      !.start = Put(@, node, MinOf({s1.start[c] : c \in Range(Children[node])})),
                      !.stop = Put(@, node, MaxOf({s1.stop[c] : c \in Range(Children[node])}))]
         IN  IF Len(Children[node]) > 1 THEN update_result(s2, node) ELSE s2

RECURSIVE ttd_loop(_, _, _)
ttd_loop(s, order, default_length) ==
    IF order = <<>> THEN s
    ELSE ttd_loop(ttd_node(s, Head(order), default_length), Tail(order), default_length)

\* the locals after the loop
ttd_locals(self, default_length) ==
    LET tip_order == Exhaust(tips(self, FALSE))
        num_tips == Len(tip_order)
        index == 0..(num_tips - 1)
        s0 == [start |-> [t \in Range(tip_order) |-> IndexIs(tip_order, t) - 1],
               stop |-> [t \in Range(tip_order) |-> IndexIs(tip_order, t)],
               tipdistances |-> [k \in index |-> 0],
               result |-> [p \in index \X index |-> 0]]
    IN  ttd_loop(s0, Exhaust(traverse(self, FALSE, TRUE, TRUE)), default_length)

\* tipToTipDistances with a slip: result is returned without its transpose
tipToTipDistances_upper(self, default_length) ==
    [matrix |-> ttd_locals(self, default_length).result,
     tip_order |-> Exhaust(tips(self, FALSE))]

\* return result+result.T, tip_order
tipToTipDistances(self, default_length) ==
    LET result == ttd_locals(self, default_length).result
    IN  [matrix |-> [p \in DOMAIN result |-> result[p] + result[<<p[2], p[1]>>]],
         tip_order |-> Exhaust(tips(self, FALSE))]

\* the call with the default default_length=1
DoTipToTipDistances(self) ==
    Called("tipToTipDistances", self, None, tipToTipDistances(self, 1))

\* ------------------------------------------------ the branch length specification
\* forests of PhyloNodes: node n has either no length or the length LengthOf(n)
InitPhyloAny ==
    /\ made = TreeNodes
    /\ Name = [n \in TreeNodes |-> NoName]
    /\ parent \in ParentMaps
    /\ Children \in ChildLists(parent, TreeSize)
    /\ params = [n \in TreeNodes |-> n]
    /\ dicts \in {f \in [TreeNodes -> {NoLength} \cup {LengthOf(n) : n \in TreeNodes}] :
                    \A n \in TreeNodes : f[n] \in {NoLength, LengthOf(n)}}

\* the tree ((A:1,B:2):3,C:4)
InitPhyloExample ==
    /\ made = 1..5
    /\ Name = <<"root", "edge.0", "A", "B", "C">>
    /\ parent = <<None, 1, 2, 2, 1>>
    /\ Children = <<<<2, 5>>, <<3, 4>>, <<>>, <<>>, <<>>>>
    /\ params = <<1, 2, 3, 4, 5>>
    /\ dicts = <<NoLength, 3, 1, 2, 4>>

InitPhylo ==
    /\ InitPhyloAny \/ InitPhyloExample
    /\ ret = NoValue
    /\ ops = 0
    /\ gen = NoGen
    /\ out = <<>>

NextPhylo ==
    \/ \E self \in made, other \in made : DoDistance(self, other)
    \/ \E self \in made : DoTipToTipDistances(self)

SpecPhylo == InitPhylo /\ [][NextPhylo]_vars

\* C16: the matrix of tipToTipDistances() has one row and one column per tip,
\* m[i][j] = m[j][i] for all tips and m[i][i] = 0
Thm_C16_TipMatrixSymmetric ==
    ret.op = "tipToTipDistances" =>
        LET m == ret.val.matrix
            index == 0..(Len(ret.val.tip_order) - 1)
        IN  /\ DOMAIN m = index \X index
            /\ \A i, j \in index : m[<<i, j>>] = m[<<j, i>>]
            /\ \A i \in index : m[<<i, i>>] = 0

\* a matrix over three tips or more with two different distances in its first row
Wit_C16_TipMatrixSymmetric ==
    /\ ret.op = "tipToTipDistances"
    /\ Len(ret.val.tip_order) >= 3
    /\ ret.val.matrix[<<0, 1>>] > 0
    /\ ret.val.matrix[<<0, 2>>] > ret.val.matrix[<<0, 1>>]

\* the sum of the lengths of the nodes S, an absent length counting 0
RECURSIVE LengthSum(_)
LengthSum(S) ==
    IF S = {} THEN 0
    ELSE LET n == CHOOSE x \in S : TRUE
         IN  (IF Length(n) = NoLength THEN 0 ELSE Length(n)) + LengthSum(S \ {n})

\* the nodes whose parent edge lies on the path between a and b
PathNodes(a, b) ==
    {n \in made : AncestorOrSelf(n, a) \/ AncestorOrSelf(n, b)} \ CommonAncestors(a, b)

\* C17: distance(a, b) is None for nodes of different trees and otherwise the
\* sum of the lengths of the nodes on the two ascents strictly below the last
\* common ancestor (0 for a is b); distance(b, a) is the same; in the tree
\* ((A:1,B:2):3,C:4) distance(A, B) is 3
Thm_C17_Distance ==
    ret.op = "distance" =>
        /\ CommonAncestors(ret.self, ret.arg) = {} => ret.val = NoLength
        /\ CommonAncestors(ret.self, ret.arg) # {} =>
              ret.val = LengthSum(PathNodes(ret.self, ret.arg))
        /\ ret.self = ret.arg => ret.val = 0
        /\ ret.val = distance(ret.arg, ret.self)
        /\ (Name[ret.self] = "A" /\ Name[ret.arg] = "B") => ret.val = 3

\* distance(A, B) has been asked for in the tree ((A:1,B:2):3,C:4)
Wit_C17_Distance ==
    /\ ret.op = "distance"
    /\ Name[ret.self] = "A"
    /\ Name[ret.arg] = "B"
    /\ Length(parent[ret.self]) = 3
    /\ ret.val = 3

\* ================================================================ TreeBuilder
\* A build heap is a full heap with one more field, used: the _used_names of
\* the TreeBuilder that _default_tree_constructor() makes for the call.
BuildHeap ==
    [nm |-> Name, par |-> parent, ch |-> Children, err |-> FALSE,
     pm |-> params, dt |-> dicts, used |-> ("edge" :> -1)]

\* _unique_name: [heap, name]; a name that is None or empty becomes 'edge'
\* _unique_name with a slip: the suffixed name is returned as it is, neither
\* looked up again nor noted
unique_name_once(h, name) ==
    LET n0 == IF name = NoName \/ name = "" THEN "edge" ELSE name
    IN  IF n0 \in DOMAIN h.used
        THEN LET k == h.used[n0] + 1
             IN  [heap |-> [h EXCEPT !.used[n0] = k],
                  name |-> n0 \o "." \o ToString(k)]
        ELSE [heap |-> [h EXCEPT !.used = @ @@ (n0 :> 1)], name |-> n0]

RECURSIVE unique_name(_, _)
unique_name(h, name) ==
    LET n0 == IF name = NoName \/ name = "" THEN "edge" ELSE name
    IN  IF n0 \in DOMAIN h.used
        THEN LET k == h.used[n0] + 1
             IN  unique_name([h EXCEPT !.used[n0] = k], n0 \o "." \o ToString(k))
        ELSE [heap |-> [h EXCEPT !.used = @ @@ (n0 :> 1)], name |-> n0]

\* createEdge(children, name, params) with params the dict object d: [heap,
\* result].  The node is PhyloNode(Children=list(children), Name=..., Params=d).
createEdge(h, children, name, d) ==
    LET u == unique_name(h, name)
        node == NewNode(u.heap)
    IN  [heap |-> extend(Construct(u.heap, u.name, d), node, children),
         result |-> node]

\* edgeFromEdge(edge, children): without edge a node 'root' with a new empty
\* dict, else a node with the name of edge and the very params of edge
edgeFromEdge(h, edge, children) ==
    IF edge = None
    THEN createEdge(MakeDict(h, NoLength), children, "root", NewDict(h))
    ELSE createEdge(h, children, h.nm[edge], h.pm[edge])

\* ------------------------------------------------------------ unrootedDeepcopy
\* _getNeighboursExcept(parent): the children, then the parent, less None and parent
getNeighboursExcept(h, self, P) ==
    SelectSeq(Append(h.ch[self], h.par[self]), LAMBDA c : c # None /\ c # P)

\* the edge whose name and params the copy of self takes (walking down from P: self)
copied_edge_down(h, self, P) == IF P = None THEN None ELSE self

\* the edge whose name and params the copy of self takes: none at the base;
\* the child P itself when the walk comes up from it; self otherwise
copied_edge(h, self, P) ==
    IF P = None THEN None
    ELSE IF h.par[P] = self THEN P
    ELSE self

\* unrootedDeepcopy(parent=P): [heap, result]
RECURSIVE unrootedDeepcopy(_, _, _)
RECURSIVE udc_children(_, _, _, _)
\* the for loop over the neighbours still to come; children is the list so far
udc_children(h, self, neighbours, children) ==
    IF neighbours = <<>> THEN [heap |-> h, children |-> children]
    ELSE LET c == unrootedDeepcopy(h, Head(neighbours), self)
         IN  udc_children(c.heap, self, Tail(neighbours), Append(children, c.result))

unrootedDeepcopy(h, self, P) ==
    LET cs == udc_children(h, self, getNeighboursExcept(h, self, P), <<>>)
        r == edgeFromEdge(cs.heap, copied_edge(h, self, P), cs.children)
    IN  IF P = None THEN [r EXCEPT !.heap.nm[r.result] = "root"] ELSE r

\* ---------------------------------------------------------------- bifurcating
\* the while loop of bifurcating with a slip: the first two children are grouped
RECURSIVE bifurcating_group_first(_, _)
bifurcating_group_first(h, children) ==
    IF Len(children) <= 2 THEN [heap |-> h, children |-> children]
    ELSE LET extra == edgeFromEdge(h, None, SubSeq(children, 1, 2))
         IN  bifurcating_group_first(extra.heap,
                    <<extra.result>> \o SubSeq(children, 3, Len(children)))

\* the while loop: extra = constructor(None, children[-2:]); children[-2:] = [extra]
RECURSIVE bifurcating_group(_, _)
bifurcating_group(h, children) ==
    IF Len(children) <= 2 THEN [heap |-> h, children |-> children]
    ELSE LET n == Len(children)
             extra == edgeFromEdge(h, None, SubSeq(children, n - 1, n))
         IN  bifurcating_group(extra.heap,
                    Append(SubSeq(children, 1, n - 2), extra.result))

\* bifurcating(): [heap, result]
RECURSIVE bifurcating(_, _)
RECURSIVE bifurcating_children(_, _, _)
\* [child.bifurcating(constructor) for child in self.Children]
bifurcating_children(h, kids, children) ==
    IF kids = <<>> THEN [heap |-> h, children |-> children]
    ELSE LET c == bifurcating(h, Head(kids))
         IN  bifurcating_children(c.heap, Tail(kids), Append(children, c.result))

bifurcating(h, self) ==
    LET cs == bifurcating_children(h, h.ch[self], <<>>)
        g == bifurcating_group(cs.heap, cs.children)
    IN  edgeFromEdge(g.heap, self, g.children)

\* ------------------------------------------------------ the build specification
\* the end of a call that builds a tree: _used_names goes with the builder;
\* before records the nodes there were when the call was made
CommitBuild(op, self, r) ==
    /\ ops = 0
    /\ CommitFull(r.heap, [op |-> op, self |-> self, arg |-> None, val |-> r.result,
                           before |-> made])

DoUnrootedDeepcopy(self) ==
    CommitBuild("unrootedDeepcopy", self, unrootedDeepcopy(BuildHeap, self, None))

DoBifurcating(self) ==
    CommitBuild("bifurcating", self, bifurcating(BuildHeap, self))

\* the name that only node n has
NodeName(n) == "n" \o ToString(n)

\* the names node n may have: none, 'root', or one of its own
BuildNames(n) == {NoName, "root", NodeName(n)}

\* forests of PhyloNodes: node n has the length LengthOf(n) and a name of
\* BuildNames(n)
InitBuildAny ==
    /\ made = TreeNodes
    /\ Name \in {f \in [TreeNodes -> UNION {BuildNames(n) : n \in TreeNodes}] :
                    \A n \in TreeNodes : f[n] \in BuildNames(n)}
    /\ parent \in ParentMaps
    /\ Children \in ChildLists(parent, TreeSize)

\* the larger example: the tree (((A,B)x,C)p,D)r, and the same with a tip that
\* is named 'edge'
InitBuildExample ==
    /\ made = 1..7
    /\ Name \in {<<"r", "p", "x", "A", "B", "C", "D">>,
                 <<"r", "p", "x", "A", "B", "edge", "D">>}
    /\ parent = <<None, 1, 2, 3, 3, 2, 1>>
    /\ Children = <<<<2, 7>>, <<3, 6>>, <<4, 5>>, <<>>, <<>>, <<>>, <<>>>>

\* the tree ((a,b,c)i,root)top: a node with three children, and to its right
\* a tip that is named 'root'
InitBuildPolytomy ==
    /\ made = 1..6
    /\ Name = <<"top", "i", "a", "b", "c", "root">>
    /\ parent = <<None, 1, 2, 2, 2, 1>>
    /\ Children = <<<<2, 6>>, <<3, 4, 5>>, <<>>, <<>>, <<>>, <<>>>>

InitBuild ==
    /\ InitBuildAny \/ InitBuildExample \/ InitBuildPolytomy
    /\ params = [n \in made |-> n]
    /\ dicts = [n \in made |-> LengthOf(n)]
    /\ ret = NoValue
    /\ ops = 0
    /\ gen = NoGen
    /\ out = <<>>

NextBuild ==
    \/ \E self \in made : DoUnrootedDeepcopy(self)
    \/ \E self \in made : DoBifurcating(self)

SpecBuild == InitBuild /\ [][NextBuild]_vars

\* -------------------------------------------------- the tree before and after
\* the root of the tree n is in
Root(n) == CHOOSE r \in made : AncestorOrSelf(r, n) /\ parent[r] = None

\* the nodes the last call has made
Built == made \ ret.before

TipsOf(S) == {n \in S : Children[n] = <<>>}

NamesOf(S) == {Name[n] : n \in S}

\* the sum of the lengths along the path between a and b
PathLength(a, b) == LengthSum(PathNodes(a, b))

\* the nodes S are named, each with a name of its own that is not 'edge', the
\* name a TreeBuilder has in use from the start
DistinctlyNamed(S) ==
    /\ \A n \in S : Name[n] \notin {NoName, "", "edge"}
    /\ \A m, n \in S : m # n => Name[m] # Name[n]

\* the tips u1, u2 of the new tree that carry the names of the tips t1, t2 of
\* the old one are as far apart as these
SameTipDistances(old, new) ==
    \A t1, t2 \in TipsOf(old) : \A u1, u2 \in TipsOf(new) :
        (Name[u1] = Name[t1] /\ Name[u2] = Name[t2]) =>
            PathLength(u1, u2) = PathLength(t1, t2)

\* the child of p through which the path from p down to x goes
PathChild(p, x) == CHOOSE c \in made : parent[c] = p /\ AncestorOrSelf(c, x)

\* the neighbour of p on the way to x, for p # x in the tree of x
Towards(p, x) == IF IsAncestor(p, x) THEN PathChild(p, x) ELSE parent[p]

\* the node that keeps the params of the edge between p and Towards(p, x)
EdgeNode(p, x) == IF IsAncestor(p, x) THEN PathChild(p, x) ELSE p

\* the node of the new tree that stands for the node p of the tree of x: the new
\* root for x, else the new node named after the edge towards x
Rep(p, x, root) ==
    IF p = x THEN root
    ELSE CHOOSE m \in Subtree(root) \ {root} : Name[m] = Name[EdgeNode(p, x)]

\* C18 as claimed: for any node x of a tree whose root has two children or more,
\* x.unrootedDeepcopy() is a new tree with as many nodes and the same tip names,
\* and the tips are as far apart as before
CE_C18_UnrootedDeepcopy ==
    (ret.op = "unrootedDeepcopy" /\ Len(Children[Root(ret.self)]) >= 2) =>
        LET old == Subtree(Root(ret.self))
            new == Subtree(ret.val)
        IN  /\ parent[ret.val] = None
            /\ new \subseteq Built
            /\ Cardinality(new) = Cardinality(old)
            /\ NamesOf(TipsOf(new)) = NamesOf(TipsOf(old))
            /\ SameTipDistances(old, new)

\* C18 as amended: the same for a node x that has children, in a tree whose
\* nodes have names of their own other than 'edge'; what is more, the new root stands for x, every
\* other node hangs below the node that stands for its neighbour towards x, and
\* carries the name and the very params of the edge between the two
Thm_C18_UnrootedDeepcopy ==
    (/\ ret.op = "unrootedDeepcopy"
     /\ Len(Children[Root(ret.self)]) >= 2
     /\ Children[ret.self] # <<>>
     /\ DistinctlyNamed(Subtree(Root(ret.self)))) =>
        LET x == ret.self
            old == Subtree(Root(x))
            new == Subtree(ret.val)
        IN  /\ parent[ret.val] = None
            /\ Name[ret.val] = "root"
            /\ new \subseteq Built
            /\ Cardinality(new) = Cardinality(old)
            /\ NamesOf(TipsOf(new)) = NamesOf(TipsOf(old))
            /\ SameTipDistances(old, new)
            /\ \A p \in old \ {x} :
                  /\ \E m \in new \ {ret.val} : Name[m] = Name[EdgeNode(p, x)]
                  /\ parent[Rep(p, x, ret.val)] = Rep(Towards(p, x), x, ret.val)
                  /\ params[Rep(p, x, ret.val)] = params[EdgeNode(p, x)]

\* a copy rooted at a node with children, two edges below the old root, in a
\* tree of distinctly named nodes
Wit_C18_UnrootedDeepcopy ==
    /\ ret.op = "unrootedDeepcopy"
    /\ Len(Children[Root(ret.self)]) >= 2
    /\ Children[ret.self] # <<>>
    /\ DistinctlyNamed(Subtree(Root(ret.self)))
    /\ parent[ret.self] # None
    /\ parent[parent[ret.self]] = Root(ret.self)
    /\ Len(Children[ret.val]) = Len(Children[ret.self]) + 1

\* ---------------------------------------------------------------------------
\* bifurcating (C19)

\* the tips below n from left to right, n itself if it has no children
RECURSIVE TipSeq(_)
TipSeq(n) ==
    LET RECURSIVE Join(_)
        Join(kids) == IF kids = <<>> THEN <<>>
                      ELSE TipSeq(Head(kids)) \o Join(Tail(kids))
    IN  IF Children[n] = <<>> THEN <<n>> ELSE Join(Children[n])

TipNameSeq(n) == [k \in DOMAIN TipSeq(n) |-> Name[TipSeq(n)[k]]]

\* the number of children beyond two, summed over the nodes S
RECURSIVE Surplus(_)
Surplus(S) ==
    IF S = {} THEN 0
    ELSE LET n == CHOOSE m \in S : TRUE
             k == Len(Children[n])
         IN  (IF k > 2 THEN k - 2 ELSE 0) + Surplus(S \ {n})

\* the names a TreeBuilder gives to nodes made without an edge
SynthNames == {"root"} \cup {"root." \o ToString(k) : k \in 2..Cardinality(made)}

\* S, the subtree of x, has names of its own (see DistinctlyNamed), none of them
\* but that of x a name the builder gives to a synthesized node
BifurcatingNamed(x, S) ==
    /\ DistinctlyNamed(S)
    /\ \A n \in S \ {x} : Name[n] \notin SynthNames

\* s is a node made for no edge of the original: it has no length, a params
\* dict of its own and a name of SynthNames
Synthesized(s) ==
    /\ Length(s) = NoLength
    /\ \A n \in made \ {s} : params[n] # params[s]
    /\ Name[s] \in SynthNames

\* n is the bifurcating copy of o: it shares o's params, has o's name (the
\* node the call was made on may be renamed), and its children are the
\* copies of o's children, all but the first grouped from the right under
\* synthesized nodes while there are more than two
RECURSIVE BifurcatedAs(_, _)
BifurcatedAs(o, n) ==
    LET RECURSIVE Grouped(_, _)
        Grouped(olds, news) ==
            IF Len(olds) <= 2
            THEN /\ Len(news) = Len(olds)
                 /\ \A k \in DOMAIN olds : BifurcatedAs(olds[k], news[k])
            ELSE /\ Len(news) = 2
                 /\ BifurcatedAs(olds[1], news[1])
                 /\ Synthesized(news[2])
                 /\ parent[news[2]] = parent[news[1]]
                 /\ Grouped(Tail(olds), Children[news[2]])
    IN  /\ n \in Built
        /\ params[n] = params[o]
        /\ o # ret.self => Name[n] = Name[o]
        /\ \A k \in DOMAIN Children[n] : parent[Children[n][k]] = n
        /\ Grouped(Children[o], Children[n])

\* what C19 says of the tree that bifurcating() returned
BifurcatingRight ==
    LET old == Subtree(ret.self)
        new == Subtree(ret.val)
    IN  /\ parent[ret.val] = None
        /\ new \subseteq Built
        /\ \A n \in new : Len(Children[n]) <= 2
        /\ TipNameSeq(ret.val) = TipNameSeq(ret.self)
        /\ Cardinality(new) = Cardinality(old) + Surplus(old)
        /\ BifurcatedAs(ret.self, ret.val)

\* a call leaves the nodes and params dicts that existed before as they were
BuildKept ==
    \A n \in made :
        /\ Name'[n] = Name[n]
        /\ parent'[n] = parent[n]
        /\ Children'[n] = Children[n]
        /\ params'[n] = params[n]
        /\ dicts'[params[n]] = dicts[params[n]]

\* C19 as claimed: bifurcating() returns a tree in which every node has at most
\* two children, whose tips have the same names in the same left-to-right
\* order as the original, in which a node with k > 2 children is replaced by
\* k-2 synthesized nodes each grouping the last two remaining children; the
\* original tree is left unchanged
CE_C19_Bifurcating ==
    /\ [](ret.op = "bifurcating" => BifurcatingRight)
    /\ [][ret'.op = "bifurcating" => BuildKept]_vars

\* C19 as amended: the same for a subtree whose nodes have non-empty names of
\* their own, none of them 'edge' and none but that of the node itself 'root'
\* or 'root.N'
Thm_C19_Bifurcating ==
    /\ []((ret.op = "bifurcating" /\ BifurcatingNamed(ret.self, Subtree(ret.self)))
              => BifurcatingRight)
    /\ [][ret'.op = "bifurcating" => BuildKept]_vars

\* bifurcating() was called on a distinctly named node with more than two
\* children and made a synthesized node for the last two
Wit_C19_Bifurcating ==
    /\ ret.op = "bifurcating"
    /\ BifurcatingNamed(ret.self, Subtree(ret.self))
    /\ Len(Children[ret.self]) > 2
    /\ \E s \in Subtree(ret.val) : Synthesized(s) /\ Len(Children[s]) = 2

\* ---------------------------------------------------------------------------
\* balanced (C20)

\* _edgecount(parent, cache): the number of edges beyond P in the direction of
\* self.  The cache, keyed by (id(parent), id(self)), only saves recomputing a
\* value that depends on the tree alone, and the tree does not change during
\* balanced()
RECURSIVE edgecount(_, _, _)
edgecount(h, self, P) ==
    LET RECURSIVE Total(_)
        Total(neighbours) ==
            IF neighbours = <<>> THEN 0
            ELSE edgecount(h, Head(neighbours), self) + Total(Tail(neighbours))
    IN  1 + Total(getNeighboursExcept(h, self, P))

RECURSIVE imbalance_loop(_, _, _, _)
\* the for loop of _imbalance; acc holds max_weight, total_weight and
\* biggest_branch (None while it is unbound)
imbalance_loop(h, self, neighbours, acc) ==
    IF neighbours = <<>> THEN acc
    ELSE LET child == Head(neighbours)
             weight == edgecount(h, child, self)
             acc1 == [acc EXCEPT !.total_weight = @ + weight]
             acc2 == IF weight > acc.max_weight
                     THEN [acc1 EXCEPT !.max_weight = weight,
                                       !.biggest_branch = child]
                     ELSE acc1
         IN  imbalance_loop(h, self, Tail(neighbours), acc2)

\* _imbalance with a slip: the second value is the whole weight
imbalance_total(h, self, P) ==
    LET acc == imbalance_loop(h, self, getNeighboursExcept(h, self, P),
                   [max_weight |-> 0, total_weight |-> 0, biggest_branch |-> None])
    IN  [max_weight |-> acc.max_weight,
         remaining_weight |-> acc.total_weight,
         next_edge |-> acc.biggest_branch,
         err |-> acc.biggest_branch = None]

\* _imbalance(parent, cache): (max_weight, total_weight - max_weight,
\* biggest_branch); without a neighbour biggest_branch is unbound and the
\* return statement raises UnboundLocalError
imbalance(h, self, P) ==
    LET acc == imbalance_loop(h, self, getNeighboursExcept(h, self, P),
                   [max_weight |-> 0, total_weight |-> 0, biggest_branch |-> None])
    IN  [max_weight |-> acc.max_weight,
         remaining_weight |-> acc.total_weight - acc.max_weight,
         next_edge |-> acc.biggest_branch,
         err |-> acc.biggest_branch = None]

\* one turn of the while loop of balanced(); g holds edge, last_edge and
\* known_weight, and pc becomes "copy" at the break
balanced_step(h, g) ==
    LET r == imbalance(h, g.edge, g.last_edge)
        known_weight == g.known_weight + r.remaining_weight
    IN  IF r.err THEN [g EXCEPT !.pc = "raise"]
        ELSE IF r.max_weight <= known_weight + 2
        THEN [g EXCEPT !.pc = "copy", !.known_weight = known_weight]
        ELSE [g EXCEPT !.last_edge = g.edge,
                       !.edge = r.next_edge,
                       !.known_weight = known_weight + 1]

\* balanced() is called on self
BalancedCall(self) ==
    /\ ops = 0
    /\ gen = NoGen
    /\ gen' = [kind |-> "balanced", pc |-> "loop", self |-> self, edge |-> self,
               last_edge |-> None, known_weight |-> 0]
    /\ UNCHANGED <<made, Name, parent, Children, ret, ops, out, params, dicts>>

\* one turn of the loop
BalancedLoop ==
    /\ gen.kind = "balanced"
    /\ gen.pc = "loop"
    /\ LET g == balanced_step(BuildHeap, gen)
       IN  IF g.pc = "raise"
           THEN /\ gen' = [g EXCEPT !.pc = "done"]
                /\ ret' = Raised
                /\ ops' = ops + 1
           ELSE /\ gen' = g
                /\ UNCHANGED <<ret, ops>>
    /\ UNCHANGED <<made, Name, parent, Children, out, params, dicts>>

\* return edge.unrootedDeepcopy()
BalancedReturn ==
    /\ gen.kind = "balanced"
    /\ gen.pc = "copy"
    /\ \E r \in {unrootedDeepcopy(BuildHeap, gen.edge, None)} :
           /\ made' = DOMAIN r.heap.nm
           /\ Name' = r.heap.nm
           /\ parent' = r.heap.par
           /\ Children' = r.heap.ch
           /\ params' = r.heap.pm
           /\ dicts' = r.heap.dt
           /\ ret' = [op |-> "balanced", self |-> gen.self, arg |-> None,
                      val |-> r.result, before |-> made]
    /\ gen' = [gen EXCEPT !.pc = "done"]
    /\ ops' = ops + 1
    /\ UNCHANGED out

\* forests of PhyloNodes, each node with a name of its own
InitBalancedAny ==
    /\ made = TreeNodes
    /\ Name = [n \in TreeNodes |-> NodeName(n)]
    /\ parent \in ParentMaps
    /\ Children \in ChildLists(parent, TreeSize)

\* a chain of six nodes, on which balanced() called at an end walks two steps
InitBalancedChain ==
    /\ made = 1..6
    /\ Name = [n \in 1..6 |-> NodeName(n)]
    /\ parent = <<None, 1, 2, 3, 4, 5>>
    /\ Children = <<<<2>>, <<3>>, <<4>>, <<5>>, <<6>>, <<>>>>

InitBalanced ==
    /\ \/ InitBalancedAny
       \/ InitBalancedChain
       \/ InitBuildExample
       \/ InitBuildPolytomy
    /\ params = [n \in made |-> n]
    /\ dicts = [n \in made |-> LengthOf(n)]
    /\ ret = NoValue
    /\ ops = 0
    /\ gen = NoGen
    /\ out = <<>>

NextBalanced ==
    \/ \E self \in made : BalancedCall(self)
    \/ BalancedLoop
    \/ BalancedReturn

\* the return statement is reached and completed: the step of BalancedReturn as
\* far as the position of the call goes
BalancedFinish ==
    /\ gen.kind = "balanced"
    /\ gen.pc = "copy"
    /\ gen' = [gen EXCEPT !.pc = "done"]

\* a call of balanced(), once made, runs on: the loop takes its next turn, and
\* the return statement, which BalancedReturn can take whenever it is reached,
\* is taken
SpecBalanced ==
    /\ InitBalanced
    /\ [][NextBalanced]_vars
    /\ WF_vars(BalancedLoop)
    /\ WF_gen(BalancedFinish)

\* the nodes of n's tree
TreeOf(n) == Subtree(Root(n))

\* the neighbours of e in its tree
NeighboursOf(e) == {c \in made : parent[c] = e \/ parent[e] = c}

\* the number of edges of e's tree that lie in the direction of its neighbour
\* c, the edge between the two included
EdgesTowards(c, e) ==
    IF parent[c] = e THEN Cardinality(Subtree(c))
    ELSE Cardinality(TreeOf(e) \ Subtree(e))

\* what C20 says of the tree that balanced() returned: it is a copy of the
\* whole tree, rooted at the node where the walk stopped, and no neighbour of
\* that node carries more edges than the rest of the tree has, plus 2
BalancedRight ==
    LET e == gen.edge
        old == TreeOf(gen.self)
        new == Subtree(ret.val)
    IN  /\ e \in old
        /\ parent[ret.val] = None
        /\ new \subseteq Built
        /\ Cardinality(new) = Cardinality(old)
        /\ Len(Children[ret.val]) = Cardinality(NeighboursOf(e))
        /\ \A c \in NeighboursOf(e) :
               EdgesTowards(c, e) <= (Cardinality(old) - 1 - EdgesTowards(c, e)) + 2
        /\ \A k \in DOMAIN Children[ret.val] :
               LET w == Cardinality(Subtree(Children[ret.val][k]))
               IN  w <= (Cardinality(new) - 1 - w) + 2

\* a turn of the loop that moves on goes to a neighbour, and not to the one it
\* came from
BalancedForward ==
    (gen.kind = "balanced" /\ gen.pc = "loop" /\ gen'.pc = "loop") =>
        /\ gen'.last_edge = gen.edge
        /\ gen'.edge \in NeighboursOf(gen.edge) \ {gen.last_edge}

\* C20: balanced() terminates for every tree with at least two nodes and from
\* any starting node; it never steps back to the node it came from; the tree it
\* returns is rooted at a node none of whose neighbours carries more edges, in
\* that neighbour's direction, than all the remaining edges of the tree plus 2
Thm_C20_Balanced ==
    /\ [](ret.op = "balanced" => BalancedRight)
    /\ [][BalancedForward]_vars
    /\ (gen.kind = "balanced" /\ Cardinality(TreeOf(gen.self)) >= 2)
           ~> (gen.pc = "done" /\ ret.op = "balanced")

\* balanced() has returned after a walk of at least one step
Wit_C20_Balanced ==
    /\ ret.op = "balanced"
    /\ gen.pc = "done"
    /\ gen.last_edge # None
    /\ gen.edge # gen.self

\* ---------------------------------------------------------------------------
\* TreeBuilder instances (C22)

\* the builder instances, and the number of calls made on them altogether
Builders == {1, 2}

MaxCalls == 3

\* the names asked for in createEdge
AskedNames == {NoName, "", "edge", "a", "a.2", "edge.0"}

\* gen holds the builders: used[b] is the _used_names dict of builder b
NoBuilders == [kind |-> "TreeBuilder", pc |-> "done",
               used |-> [b \in Builders |-> ("edge" :> -1)]]

\* the heap as builder b sees it
HeapOf(b) == [BuildHeap EXCEPT !.used = gen.used[b]]

\* the nodes builder b has made that have no parent yet, oldest first
RECURSIVE Unparented(_, _)
Unparented(b, log) ==
    IF log = <<>> THEN <<>>
    ELSE LET e == Head(log)
         IN  (IF e.builder = b /\ parent[e.node] = None THEN <<e.node>> ELSE <<>>)
                 \o Unparented(b, Tail(log))

\* a call on builder b that asked for the name asked: out notes the builder, the
\* name asked for and the node made
CommitNames(b, asked, r) ==
    /\ ops' = ops + 1
    /\ made' = DOMAIN r.heap.nm
    /\ Name' = r.heap.nm
    /\ parent' = r.heap.par
    /\ Children' = r.heap.ch
    /\ params' = r.heap.pm
    /\ dicts' = r.heap.dt
    /\ gen' = [gen EXCEPT !.used[b] = r.heap.used]
    /\ out' = Append(out, [builder |-> b, asked |-> asked, node |-> r.result])
    /\ ret' = [op |-> "createEdge", self |-> b, arg |-> asked, val |-> r.result]

\* b.createEdge(None, name, {}): a tip, as the parser makes it
DoCreateEdge(b, name) ==
    /\ ops < MaxCalls
    /\ CommitNames(b, name,
           createEdge(MakeDict(HeapOf(b), NoLength), <<>>, name, NewDict(HeapOf(b))))

\* b.edgeFromEdge(edge, children) over the nodes b has made so far
DoEdgeFromEdge(b, edge) ==
    /\ ops < MaxCalls
    /\ CommitNames(b, IF edge = None THEN "root" ELSE Name[edge],
           edgeFromEdge(HeapOf(b), edge, Unparented(b, out)))

InitNames ==
    /\ made = {}
    /\ Name = <<>>
    /\ parent = <<>>
    /\ Children = <<>>
    /\ params = <<>>
    /\ dicts = <<>>
    /\ ret = NoValue
    /\ ops = 0
    /\ gen = NoBuilders
    /\ out = <<>>

NextNames ==
    \/ \E b \in Builders, name \in AskedNames : DoCreateEdge(b, name)
    \/ \E b \in Builders, edge \in made \cup {None} : DoEdgeFromEdge(b, edge)

SpecNames == InitNames /\ [][NextNames]_vars

\* the calls made on builder b, in order
CallsOf(b) == SelectSeq(out, LAMBDA e : e.builder = b)

\* the name given in call e
Given(e) == Name[e.node]

\* the names given in the first k calls of log
GivenIn(log, k) == {Given(log[i]) : i \in 1..k}

\* no name was asked for: None or the empty string
Unnamed(nm) == nm \in {NoName, ""}

\* nm with one to depth suffixes '.<n>'
RECURSIVE Suffixed(_, _)
Suffixed(nm, depth) ==
    IF depth = 0 THEN {}
    ELSE LET once == {nm \o "." \o ToString(n) : n \in 0..(MaxCalls + 1)}
         IN  once \cup UNION {Suffixed(s, depth - 1) : s \in once}

\* the names 'edge.<n>'
EdgeNames == {"edge." \o ToString(n) : n \in 0..(MaxCalls + 1)}

\* the number of calls among the first k of log for which P holds
CountIn(log, k, P(_)) == Cardinality({i \in 1..k : P(log[i].asked)})

\* the names given by one builder are pairwise distinct
NamesDistinct ==
    \A b \in Builders :
        LET log == CallsOf(b)
        IN  \A i, j \in DOMAIN log : i # j => Given(log[i]) # Given(log[j])

\* a name given before, to a node of this builder, gets one or more suffixes
NamesSuffixed ==
    \A b \in Builders :
        LET log == CallsOf(b)
        IN  \A i \in DOMAIN log :
                (~Unnamed(log[i].asked) /\ log[i].asked \in GivenIn(log, i - 1))
                    => Given(log[i]) \in Suffixed(log[i].asked, 2)

\* the names given by a builder depend on the calls made on that builder alone
BuildersIndependent ==
    \A b1, b2 \in Builders :
        LET l1 == CallsOf(b1)
            l2 == CallsOf(b2)
        IN  \A k \in DOMAIN l1 \cap DOMAIN l2 :
                (\A i \in 1..k : l1[i].asked = l2[i].asked)
                    => Given(l1[k]) = Given(l2[k])

\* C22 as claimed: the names a builder gives are pairwise distinct; a name not
\* used before in that builder is kept; a repeated name gets a '.<n>' suffix,
\* disambiguated again if need be; empty names become edge.0, edge.1, ... in
\* call order; the counters of two builders are independent
CE_C22_UniqueNames ==
    /\ NamesDistinct
    /\ NamesSuffixed
    /\ BuildersIndependent
    /\ \A b \in Builders :
           LET log == CallsOf(b)
           IN  \A i \in DOMAIN log :
                   /\ (~Unnamed(log[i].asked) /\ log[i].asked \notin GivenIn(log, i - 1))
                          => Given(log[i]) = log[i].asked
                   /\ Unnamed(log[i].asked)
                          => Given(log[i]) =
                                 "edge." \o ToString(CountIn(log, i - 1, Unnamed))

\* C22 as amended: the name 'edge' counts as an empty name, and empty names
\* become edge.0, edge.1, ... in call order as long as no name was asked for
\* in that builder that is already of this form
Thm_C22_UniqueNames ==
    /\ NamesDistinct
    /\ NamesSuffixed
    /\ BuildersIndependent
    /\ \A b \in Builders :
           LET log == CallsOf(b)
               Edge(nm) == Unnamed(nm) \/ nm = "edge"
           IN  \A i \in DOMAIN log :
                   /\ (~Edge(log[i].asked) /\ log[i].asked \notin GivenIn(log, i - 1))
                          => Given(log[i]) = log[i].asked
                   /\ (/\ Edge(log[i].asked)
                       /\ \A j \in 1..(i - 1) : log[j].asked \notin EdgeNames)
                          => Given(log[i]) =
                                 "edge." \o ToString(CountIn(log, i - 1, Edge))

\* one builder was asked for 'a.2' and twice for 'a', and has disambiguated
\* the suffixed name again; the other builder was not used
Wit_C22_UniqueNames ==
    \E b \in Builders :
        LET log == CallsOf(b)
        IN  /\ Len(log) = 3
            /\ Len(out) = 3
            /\ log[1].asked = "a.2" /\ log[2].asked = "a" /\ log[3].asked = "a"
            /\ Given(log[3]) = "a.2.2"

\* ---------------------------------------------------------------------------
\* tipToTipDistances against distance (C25)

\* every node below self has its branch length set
LengthsSet(self) == \A n \in Subtree(self) \ {self} : Length(n) # NoLength

\* C25: where every node below self has a length, entry [i][j] of the matrix
\* of tipToTipDistances(), indexed by the returned tip order, is the sum of the
\* branch lengths on the path between tip i and tip j, which is
\* tip_i.distance(tip_j); nodes with a single child included
Thm_C25_TipMatrixDistances ==
    (ret.op = "tipToTipDistances" /\ LengthsSet(ret.self)) =>
        LET m == ret.val.matrix
            tip_order == ret.val.tip_order
        IN  /\ Range(tip_order) = TipsOf(Subtree(ret.self) \ {ret.self})
            /\ \A i, j \in 0..(Len(tip_order) - 1) :
                  /\ m[<<i, j>>] = distance(tip_order[i + 1], tip_order[j + 1])
                  /\ m[<<i, j>>] = LengthSum(PathNodes(tip_order[i + 1], tip_order[j + 1]))

\* the matrix of a tree with all lengths set in which a node with a single
\* child lies between two tips
Wit_C25_TipMatrixDistances ==
    /\ ret.op = "tipToTipDistances"
    /\ LengthsSet(ret.self)
    /\ Len(ret.val.tip_order) >= 2
    /\ \E n \in Subtree(ret.self) \ {ret.self} : Len(Children[n]) = 1
    /\ ret.val.matrix[<<0, 1>>] >= 3

\* ---------------------------------------------------------------------------
\* getNodeNames (C28)

\* getNodeNames(includeself, tipsonly): traverse(False, False) is the tips with
\* include_self at its default, True; nodes[:-1] is the list less its last item
getNodeNames(self, includeself, tipsonly) ==
    LET nodes == IF tipsonly THEN Exhaust(traverse(self, FALSE, FALSE, TRUE))
                 ELSE LET all == Exhaust(traverse(self, TRUE, FALSE, TRUE))
                      IN  IF ~includeself THEN SubSeq(all, 1, Len(all) - 1) ELSE all
    IN  [k \in DOMAIN nodes |-> Name[nodes[k]]]

DoGetNodeNames(self, includeself, tipsonly) ==
    Called("getNodeNames", self, [includeself |-> includeself, tipsonly |-> tipsonly],
           getNodeNames(self, includeself, tipsonly))

\* forests of nodes, each with a name of its own
InitNodeNames ==
    /\ made = TreeNodes
    /\ Name = [n \in TreeNodes |-> NodeName(n)]
    /\ parent \in ParentMaps
    /\ Children \in ChildLists(parent, TreeSize)
    /\ params = [n \in TreeNodes |-> n]
    /\ dicts = [d \in TreeNodes |-> NoLength]
    /\ ret = NoValue
    /\ ops = 0
    /\ gen = NoGen
    /\ out = <<>>

NextNodeNames ==
    \E self \in made, includeself \in BOOLEAN, tipsonly \in BOOLEAN :
        DoGetNodeNames(self, includeself, tipsonly)

SpecNodeNames == InitNodeNames /\ [][NextNodeNames]_vars

\* the names of the subtree of n in preorder: n, then each child's subtree
RECURSIVE PreorderNames(_)
PreorderNames(n) ==
    LET RECURSIVE Join(_)
        Join(kids) == IF kids = <<>> THEN <<>>
                      ELSE PreorderNames(Head(kids)) \o Join(Tail(kids))
    IN  <<Name[n]>> \o Join(Children[n])

\* C28: getNodeNames(includeself, tipsonly=False) lists the names of the
\* subtree's nodes in preorder with this node first; with includeself=False
\* the result is that list without this node's own name, every descendant's
\* name still present
CE_C28_GetNodeNames ==
    (ret.op = "getNodeNames" /\ ~ret.arg.tipsonly) =>
        ret.val = IF ret.arg.includeself THEN PreorderNames(ret.self)
                  ELSE Tail(PreorderNames(ret.self))

\* ---------------------------------------------------------------------------
\* traverse against traverse_recursive (C29)

\* the flags with which traverse() chose the generator g
SelfBefore(g) == g.kind \in {"preorder", "pre_and_postorder"}

SelfAfter(g) == g.kind \in {"postorder", "pre_and_postorder"}

\* C29: on a tree that is not edited meanwhile, traverse(self_before,
\* self_after, include_self), run to exhaustion, has yielded the sequence of
\* nodes that traverse_recursive yields with the same three flags, for every
\* start node
Thm_C29_TraverseAgree ==
    gen.pc = "done" =>
        out = Exhaust(traverse_recursive(gen.self, SelfBefore(gen), SelfAfter(gen),
                                         gen.include_self))

\* pre_and_postorder without the start node is exhausted on a node that has a
\* grandchild and a second child
Wit_C29_TraverseAgree ==
    /\ gen.pc = "done"
    /\ gen.kind = "pre_and_postorder"
    /\ ~gen.include_self
    /\ Len(Children[gen.self]) >= 2
    /\ \E c \in Range(Children[gen.self]) : Children[c] # <<>>
    /\ Len(out) >= 4

\* ---------------------------------------------------------------------------
\* Length assignments after unrootedDeepcopy (C30)

\* the length that is assigned
NewLength == 99

\* self.unrootedDeepcopy(), the first call
AliasUnrootedDeepcopy(self) ==
    /\ ops = 0
    /\ CommitBuild("unrootedDeepcopy", self, unrootedDeepcopy(BuildHeap, self, None))

\* n.Length = NewLength after the copy, on any node of either tree
AliasSetLength(n) ==
    /\ ops = 1
    /\ ret.op = "unrootedDeepcopy"
    /\ CommitFull(set_length(FullHeap, n, NewLength),
                  [op |-> "Length", self |-> n, arg |-> NewLength, val |-> ret.val,
                   before |-> ret.before])

InitAlias ==
    /\ InitBalancedAny \/ InitBuildExample
    /\ params = [n \in made |-> n]
    /\ dicts = [n \in made |-> LengthOf(n)]
    /\ ret = NoValue
    /\ ops = 0
    /\ gen = NoGen
    /\ out = <<>>

NextAlias ==
    \/ \E self \in made : AliasUnrootedDeepcopy(self)
    \/ \E n \in made : AliasSetLength(n)

SpecAlias == InitAlias /\ [][NextAlias]_vars

\* an assignment of Length in one of the two trees leaves the length of every
\* node of the other tree as it was
AssignmentKept ==
    ret'.op = "Length" =>
        \A m \in made :
            ((m \in ret'.before) # (ret'.self \in ret'.before))
                => dicts'[params'[m]] = dicts[params[m]]

\* C30: the tree returned by unrootedDeepcopy shares no mutable state with the
\* tree it was made from: assigning a node's Length in the returned tree
\* leaves the Length and params of every node of the original tree unchanged,
\* and the other way round
CE_C30_CopyShares == [][AssignmentKept]_vars

\* ---------------------------------------------------------------------------
\* removeDeleted and prune (C23, C26)

\* the while loop of removeDeleted from curr_parent on: with curr_parent None
\* the test reads None.Children, an AttributeError, before it comes to
\* "curr_parent is not None"
RECURSIVE removeDeleted_while(_, _)
removeDeleted_while(h, curr_parent) ==
    IF curr_parent = None THEN [h EXCEPT !.err = TRUE]
    ELSE IF h.ch[curr_parent] # <<>> THEN h
    ELSE removeDeleted_while(set_parent(h, curr_parent, None), h.par[curr_parent])

\* the for loop of removeDeleted over the nodes still to come; is_deleted holds
\* of the nodes D
RECURSIVE removeDeleted_loop(_, _, _)
removeDeleted_loop(h, nodes, D) ==
    IF nodes = <<>> \/ h.err THEN h
    ELSE LET node == Head(nodes)
         IN  IF node \in D
             THEN removeDeleted_loop(
                      removeDeleted_while(set_parent(h, node, None), h.par[node]),
                      Tail(nodes), D)
             ELSE removeDeleted_loop(h, Tail(nodes), D)

\* removeDeleted(is_deleted) over list(self.traverse(False, True))
removeDeleted(h, self, D) ==
    removeDeleted_loop(h, Exhaust(traverse(self, FALSE, TRUE, TRUE)), D)

\* the second loop of prune over nodes_to_remove; node.Children[0] of a node
\* without children is an IndexError
RECURSIVE prune_loop(_, _)
prune_loop(h, nodes) ==
    IF nodes = <<>> \/ h.err THEN h
    ELSE LET node == Head(nodes)
             curr_parent == h.par[node]
         IN  IF h.ch[node] = <<>> THEN [h EXCEPT !.err = TRUE]
             ELSE LET child == h.ch[node][1]
                      h1 == set_parent(h, node, None)
                  IN  prune_loop(set_parent(h1, child, curr_parent), Tail(nodes))

\* prune(): nodes_to_remove are the nodes of self.traverse() that have a
\* parent and a single child
prune(h, self) ==
    prune_loop(h, SelectSeq(Exhaust(traverse(self, TRUE, FALSE, TRUE)),
                            LAMBDA node : h.par[node] # None /\ Len(h.ch[node]) = 1))

\* the outcome of a call: what is left of the heap, with ret.err for an
\* exception and ret.before for the parents and child lists at the call
CommitPrune(h, op, self, D) ==
    /\ ops' = ops + 1
    /\ Name' = h.nm
    /\ parent' = h.par
    /\ Children' = h.ch
    /\ ret' = [op |-> op, self |-> self, arg |-> D, val |-> None, err |-> h.err,
               before |-> [par |-> parent, ch |-> Children]]
    /\ UNCHANGED <<made, gen, out, params, dicts>>

\* self.removeDeleted(is_deleted) with is_deleted true of the nodes D below self
DoRemoveDeleted(self, D) ==
    /\ ops = 0
    /\ CommitPrune(removeDeleted(FullHeap, self, D), "removeDeleted", self, D)

\* self.prune() after a removeDeleted that has returned
DoPrune ==
    /\ ops = 1
    /\ ret.op = "removeDeleted"
    /\ ~ret.err
    /\ CommitPrune(prune(FullHeap, ret.self), "prune", ret.self, ret.arg)

\* the nodes reachable from n over the child lists
RECURSIVE Below(_)
Below(n) == {n} \cup UNION {Below(Children[n][k]) : k \in DOMAIN Children[n]}

\* forests of nodes that are unnamed or named 'a'
InitPruneAny ==
    /\ made = TreeNodes
    /\ Name \in [TreeNodes -> Names]
    /\ parent \in ParentMaps
    /\ Children \in ChildLists(parent, TreeSize)

\* the tree ((((a)x,a)p)r: below p a node with a single child, whose name the
\* other child of p has too
InitPruneExample ==
    /\ made = 1..5
    /\ Name = <<"r", "p", "x", "a", "a">>
    /\ parent = <<None, 1, 2, 2, 3>>
    /\ Children = <<<<2>>, <<3, 4>>, <<5>>, <<>>, <<>>>>

InitPrune ==
    /\ InitPruneAny \/ InitPruneExample
    /\ params = [n \in made |-> n]
    /\ dicts = [d \in made |-> NoLength]
    /\ ret = NoValue
    /\ ops = 0
    /\ gen = NoGen
    /\ out = <<>>

NextPrune ==
    \/ \E self \in made : \E D \in SUBSET Below(self) : DoRemoveDeleted(self, D)
    \/ DoPrune

SpecPrune == InitPrune /\ [][NextPrune]_vars

\* the call was made on the root of a tree
OnRoot == ret.before.par[ret.self] = None

\* C23: for any tree and any predicate, after removeDeleted(predicate)
\* followed by prune() no node reachable from the root that has children has
\* exactly one child
CE_C23_PruneNoSingleChild ==
    (ret.op = "prune" /\ ~ret.err) =>
        \A n \in Below(ret.self) : Len(Children[n]) # 1

\* C26: removeDeleted(is_deleted) completes without error for every tree and
\* every predicate that is false on the root, predicates true for all tips or
\* for a node and its only child included; afterwards no node reachable from
\* the root satisfies the predicate, and every childless node other than the
\* root was a tip before the call
CE_C26_RemoveDeletedCompletes ==
    (ret.op = "removeDeleted" /\ OnRoot /\ ret.self \notin ret.arg) =>
        /\ ~ret.err
        /\ \A n \in Below(ret.self) : n \notin ret.arg
        /\ \A n \in Below(ret.self) \ {ret.self} :
               Children[n] = <<>> => ret.before.ch[n] = <<>>

\* ---------------------------------------------------------------------------
\* getEdgeNames (C24)

\* the outcome of a lookup or of getEdgeNames: the kind of TreeError raised,
\* if any, and the value returned
NoError == "None"

Result(err, val) == [err |-> err, val |-> val]

\* _getNodeMatchingName: the first node of the preorder traversal that has the
\* name, or None
matching_loop(nodes, name) ==
    LET hits == {k \in DOMAIN nodes : Name[nodes[k]] = name}
    IN  IF hits = {} THEN None ELSE nodes[MinOf(hits)]

\* getNodeMatchingName: TreeError if no node has the name
getNodeMatchingName(self, name) ==
    LET node == matching_loop(Exhaust(traverse(self, TRUE, FALSE, TRUE)), name)
    IN  IF node = None THEN Result("No node named", None) ELSE Result(NoError, node)

\* getConnectingNode: the last common ancestor of the two named nodes
getConnectingNode(self, name1, name2) ==
    LET edge1 == getNodeMatchingName(self, name1)
        edge2 == getNodeMatchingName(self, name2)
    IN  IF edge1.err # NoError THEN edge1
        ELSE IF edge2.err # NoError THEN edge2
        ELSE LET lca == lastCommonAncestor(edge1.val, edge2.val)
             IN  IF lca = None THEN Result("No LCA found", None)
                 ELSE Result(NoError, lca)

isroot(self) == parent[self] = None

\* "for child in join_edge.Children: edge_names.extend(child.getNodeNames(includeself = 1))"
RECURSIVE clade_loop(_)
clade_loop(kids) ==
    IF kids = <<>> THEN <<>>
    ELSE getNodeNames(Head(kids), TRUE, FALSE) \o clade_loop(Tail(kids))

\* the loop with a slip: the names of the children only
RECURSIVE clade_loop_children(_)
clade_loop_children(kids) ==
    IF kids = <<>> THEN <<>>
    ELSE <<Name[Head(kids)]>> \o clade_loop_children(Tail(kids))

\* getEdgeNames with a slip: the clade is the children of join_edge
getEdgeNames_children(self, tip1name, tip2name, getclade, getstem) ==
    LET join_edge == getConnectingNode(self, tip1name, tip2name)
    IN  IF join_edge.err # NoError THEN join_edge
        ELSE IF getstem /\ isroot(join_edge.val)
        THEN Result("LCA is the root and so has no stem", None)
        ELSE Result(NoError,
                 (IF getstem THEN <<Name[join_edge.val]>> ELSE <<>>)
                     \o (IF getclade THEN clade_loop_children(Children[join_edge.val])
                         ELSE <<>>))

\* getEdgeNames(tip1name, tip2name, getclade, getstem) with outgroup_name None
getEdgeNames(self, tip1name, tip2name, getclade, getstem) ==
    LET join_edge == getConnectingNode(self, tip1name, tip2name)
    IN  IF join_edge.err # NoError THEN join_edge
        ELSE IF getstem /\ isroot(join_edge.val)
        THEN Result("LCA is the root and so has no stem", None)
        ELSE Result(NoError,
                 (IF getstem THEN <<Name[join_edge.val]>> ELSE <<>>)
                     \o (IF getclade THEN clade_loop(Children[join_edge.val])
                         ELSE <<>>))

DoGetEdgeNames(self, tip1name, tip2name, getclade, getstem) ==
    Called("getEdgeNames", self,
           [tip1name |-> tip1name, tip2name |-> tip2name,
            getclade |-> getclade, getstem |-> getstem],
           getEdgeNames(self, tip1name, tip2name, getclade, getstem))

\* a name that no node has
AbsentName == "zz"

\* forests of nodes with names of their own, but that the last node has the
\* name of the first
InitEdgeNamesAny ==
    /\ made = TreeNodes
    /\ Name = [n \in TreeNodes |-> IF n = TreeSize THEN NodeName(1) ELSE NodeName(n)]
    /\ parent \in ParentMaps
    /\ Children \in ChildLists(parent, TreeSize)
    /\ params = [n \in TreeNodes |-> n]
    /\ dicts = [d \in TreeNodes |-> NoLength]

InitEdgeNames ==
    /\ InitEdgeNamesAny \/ InitPhyloExample
    /\ ret = NoValue
    /\ ops = 0
    /\ gen = NoGen
    /\ out = <<>>

NextEdgeNames ==
    \E self \in made, tip1name, tip2name \in NamesOf(made) \cup {AbsentName},
       getclade \in BOOLEAN, getstem \in BOOLEAN :
        DoGetEdgeNames(self, tip1name, tip2name, getclade, getstem)

SpecEdgeNames == InitEdgeNames /\ [][NextEdgeNames]_vars

\* the nodes of the subtree of n in preorder
RECURSIVE PreorderNodes(_)
PreorderNodes(n) ==
    LET RECURSIVE Join(_)
        Join(kids) == IF kids = <<>> THEN <<>>
                      ELSE PreorderNodes(Head(kids)) \o Join(Tail(kids))
    IN  <<n>> \o Join(Children[n])

\* the nodes below self that have the name
Named(self, name) == {n \in Subtree(self) : Name[n] = name}

\* the node that a name stands for: of the nodes below self that have it, the
\* first in preorder
NodeNamed(self, name) ==
    CHOOSE n \in Named(self, name) :
        \A m \in Named(self, name) :
            IndexIs(PreorderNodes(self), n) <= IndexIs(PreorderNodes(self), m)

\* the last common ancestor of a and b: the common ancestor below all others
Lca(a, b) ==
    CHOOSE l \in CommonAncestors(a, b) :
        \A c \in CommonAncestors(a, b) : AncestorOrSelf(c, l)

\* C24: getEdgeNames(tip1, tip2, getclade, getstem) without an outgroup, for
\* two names that nodes below self have: with getstem it fails with a
\* TreeError when the last common ancestor of the two named nodes is the root
\* and otherwise puts the name of the LCA first; with getclade it appends the
\* names of all proper descendants of the LCA, each child's subtree in
\* preorder, and no other name; in ((A:1,B:2):3,C:4) with both flags the
\* result for A and B is the name of the internal node, then A, B
Thm_C24_GetEdgeNames ==
    (/\ ret.op = "getEdgeNames"
     /\ Named(ret.self, ret.arg.tip1name) # {}
     /\ Named(ret.self, ret.arg.tip2name) # {}) =>
        LET lca == Lca(NodeNamed(ret.self, ret.arg.tip1name),
                       NodeNamed(ret.self, ret.arg.tip2name))
            stem == IF ret.arg.getstem THEN <<Name[lca]>> ELSE <<>>
            clade == IF ret.arg.getclade THEN Tail(PreorderNames(lca)) ELSE <<>>
        IN  /\ (ret.arg.getstem /\ parent[lca] = None) => ret.val.err # NoError
            /\ ~(ret.arg.getstem /\ parent[lca] = None) =>
                   ret.val = Result(NoError, stem \o clade)
            /\ (/\ Name = <<"root", "edge.0", "A", "B", "C">>
                /\ ret.arg = [tip1name |-> "A", tip2name |-> "B",
                              getclade |-> TRUE, getstem |-> TRUE])
                   => ret.val.val = <<"edge.0", "A", "B">>

\* stem and clade have been asked for two nodes whose last common ancestor is
\* neither of them nor the root, and has a grandchild
Wit_C24_GetEdgeNames ==
    /\ ret.op = "getEdgeNames"
    /\ ret.arg.getstem /\ ret.arg.getclade
    /\ ret.val.err = NoError
    /\ Len(ret.val.val) >= 3
    /\ ret.arg.tip1name # ret.arg.tip2name
    /\ ret.val.val[1] \notin {ret.arg.tip1name, ret.arg.tip2name}

\* ---------------------------------------------------------------------------
\* unrooted (C27)

\* PhyloNode.Length of a node of the heap h
LengthIn(h, n) == h.dt[h.pm[n]]

\* "for sib in oldnode.Children": each child is copied, takes the length of
\* oldnode on top of its own when both have one, and joins new_children
RECURSIVE unrooted_expand(_, _, _, _)
unrooted_expand(h, oldnode, sibs, new_children) ==
    IF sibs = <<>> THEN [heap |-> h, children |-> new_children]
    ELSE LET c == copy(h, Head(sibs))
             sib == c.result
             h1 == IF LengthIn(c.heap, sib) # NoLength /\ LengthIn(h, oldnode) # NoLength
                   THEN set_length(c.heap, sib,
                                   LengthIn(c.heap, sib) + LengthIn(h, oldnode))
                   ELSE c.heap
         IN  unrooted_expand(h1, oldnode, Tail(sibs), Append(new_children, sib))

\* "for oldnode in self.Children": the first child that has children is
\* replaced by its children if self has fewer than three; the others are copied
RECURSIVE unrooted_loop(_, _, _, _)
unrooted_loop(h, oldnodes, need_to_expand, new_children) ==
    IF oldnodes = <<>> THEN [heap |-> h, children |-> new_children]
    ELSE LET oldnode == Head(oldnodes)
         IN  IF h.ch[oldnode] # <<>> /\ need_to_expand
             THEN LET e == unrooted_expand(h, oldnode, h.ch[oldnode], new_children)
                  IN  unrooted_loop(e.heap, Tail(oldnodes), FALSE, e.children)
             ELSE LET c == copy(h, oldnode)
                  IN  unrooted_loop(c.heap, Tail(oldnodes), need_to_expand,
                                    Append(new_children, c.result))

\* unrooted(): [heap, result]
unrooted(h, self) ==
    LET l == unrooted_loop(h, h.ch[self], Len(h.ch[self]) < 3, <<>>)
    IN  edgeFromEdge(l.heap, self, l.children)

DoUnrooted(self) == CommitBuild("unrooted", self, unrooted(BuildHeap, self))

\* forests of PhyloNodes with names of their own: node n has either no length
\* or the length LengthOf(n)
InitUnrootedAny ==
    /\ made = TreeNodes
    /\ Name = [n \in TreeNodes |-> NodeName(n)]
    /\ parent \in ParentMaps
    /\ Children \in ChildLists(parent, TreeSize)
    /\ params = [n \in TreeNodes |-> n]
    /\ dicts \in {f \in [TreeNodes -> {NoLength} \cup {LengthOf(n) : n \in TreeNodes}] :
                    \A n \in TreeNodes : f[n] \in {NoLength, LengthOf(n)}}

\* the tree ((a:4,(c:16,d:32)q:8)p:2)r: a root with one child, which has two
InitUnrootedChain ==
    /\ made = 1..6
    /\ Name = <<"r", "p", "a", "q", "c", "d">>
    /\ parent = <<None, 1, 2, 2, 4, 4>>
    /\ Children = <<<<2>>, <<3, 4>>, <<>>, <<5, 6>>, <<>>, <<>>>>
    /\ params = <<1, 2, 3, 4, 5, 6>>
    /\ dicts = <<NoLength, 2, 4, 8, 16, 32>>

InitUnrooted ==
    /\ InitUnrootedAny \/ InitPhyloExample \/ InitUnrootedChain
    /\ ret = NoValue
    /\ ops = 0
    /\ gen = NoGen
    /\ out = <<>>

NextUnrooted == \E self \in made : DoUnrooted(self)

SpecUnrooted == InitUnrooted /\ [][NextUnrooted]_vars

\* every node below n has a length
LengthsSetBelow(n) == \A d \in Subtree(n) \ {n} : Length(d) # NoLength

\* C27: unrooted() on a tree that has at least three tips returns a tree with
\* at least three children at the root, and if all lengths are set the path
\* distance between any two tips is the same in the new tree as in the old
CE_C27_Unrooted ==
    (/\ ret.op = "unrooted"
     /\ Cardinality(TipsOf(Subtree(ret.self))) >= 3) =>
        /\ Len(Children[ret.val]) >= 3
        /\ LengthsSetBelow(ret.self) =>
               SameTipDistances(Subtree(ret.self), Subtree(ret.val))

\* ---------------------------------------------------------------------------
\* sameTopology (C21)

\* _default_tree_constructor(): the edgeFromEdge of a new TreeBuilder, whose
\* _used_names are those of __init__
NewBuilder(h) == [h EXCEPT !.used = ("edge" :> -1)]

\* the order of str, for list.sort() on names.  The names of the model are a
\* base name with up to two suffixes '.<n>', n <= MaxSuffix; the key of a
\* name is <<base, first suffix, second suffix>> with 0 for no suffix and n + 1
\* for the suffix n, and names compare as their keys do, None before any str
MaxSuffix == 6

BaseNames ==
    <<NoName, "", "A", "B", "C", "D", "edge", "n1", "n2", "n3", "n4", "n5",
      "n6", "root", "x">>

SortKeys ==
    {k \in (DOMAIN BaseNames) \X (0..(MaxSuffix + 1)) \X (0..(MaxSuffix + 1)) :
        k[2] = 0 => k[3] = 0}

KeySuffix(i) == IF i = 0 THEN "" ELSE "." \o ToString(i - 1)

KeyName(k) == BaseNames[k[1]] \o KeySuffix(k[2]) \o KeySuffix(k[3])

KeyRank(k) == (k[1] * (MaxSuffix + 2) + k[2]) * (MaxSuffix + 2) + k[3]

NameRank ==
    [nm \in {KeyName(k) : k \in SortKeys} |->
        KeyRank(CHOOSE k \in SortKeys : KeyName(k) = nm)]

\* list.sort() of a list of [key, val], smallest key first; items with equal
\* keys stay in their order
RECURSIVE list_sort(_)
list_sort(s) ==
    IF s = <<>> THEN <<>>
    ELSE LET rest == list_sort(SubSeq(s, 1, Len(s) - 1))
             x == s[Len(s)]
             before == SelectSeq(rest, LAMBDA y : y.key <= x.key)
             after == SelectSeq(rest, LAMBDA y : y.key > x.key)
         IN  before \o <<x>> \o after

\* tip_names.sort()
sort_names(names) ==
    LET s == list_sort([k \in DOMAIN names |-> [key |-> NameRank[names[k]], val |-> names[k]]])
    IN  [k \in DOMAIN s |-> s[k].val]

\* the tips below self in the heap h, left to right; self if it is a tip
RECURSIVE tipsIn(_, _)
tipsIn(h, self) ==
    LET RECURSIVE Join(_)
        Join(kids) == IF kids = <<>> THEN <<>>
                      ELSE tipsIn(h, Head(kids)) \o Join(Tail(kids))
    IN  IF h.ch[self] = <<>> THEN <<self>> ELSE Join(h.ch[self])

\* getTipNames() of a node of the heap h
getTipNames(h, self) == LET t == tipsIn(h, self) IN [k \in DOMAIN t |-> h.nm[t[k]]]

\* rootedWithTip(outgroup_name): [heap, err, result]; a name that no node has
\* is a TreeError, a named node without Parent an AttributeError
rootedWithTip(h, self, outgroup_name) ==
    LET tip == getNodeMatchingName(self, outgroup_name)
    IN  IF tip.err # NoError THEN [heap |-> h, err |-> "TreeError", result |-> None]
        ELSE IF h.par[tip.val] = None
        THEN [heap |-> h, err |-> "AttributeError", result |-> None]
        ELSE LET r == unrootedDeepcopy(NewBuilder(h), h.par[tip.val], None)
             IN  [heap |-> r.heap, err |-> NoError, result |-> r.result]

\* rootedAt(edge_name): [heap, err, result]; a tip is a TreeError
rootedAt(h, self, edge_name) ==
    LET newroot == getNodeMatchingName(self, edge_name)
    IN  IF newroot.err # NoError \/ h.ch[newroot.val] = <<>>
        THEN [heap |-> h, err |-> "TreeError", result |-> None]
        ELSE LET r == unrootedDeepcopy(NewBuilder(h), newroot.val, None)
             IN  [heap |-> r.heap, err |-> NoError, result |-> r.result]

\* _sorted(sort_order): [heap, score, tree].  The score of a tip is the index
\* of its name in sort_order, that of another node the first score of its
\* sorted children, which all have one.
RECURSIVE sorted_scored(_, _, _)
RECURSIVE sorted_children(_, _, _, _)
\* [child._sorted(sort_order) for child in self.Children]
sorted_children(h, kids, sort_order, scored) ==
    IF kids = <<>> THEN [heap |-> h, scored |-> scored]
    ELSE LET s == sorted_scored(h, Head(kids), sort_order)
         IN  sorted_children(s.heap, Tail(kids), sort_order,
                             Append(scored, [key |-> s.score, val |-> s.tree]))

\* [child.deepcopy(constructor) for (score, child) in scored_subtrees]
RECURSIVE sorted_copies(_, _, _)
sorted_copies(h, scored, children) ==
    IF scored = <<>> THEN [heap |-> h, children |-> children]
    ELSE LET c == copy(h, Head(scored).val)
         IN  sorted_copies(c.heap, Tail(scored), Append(children, c.result))

sorted_scored(h, self, sort_order) ==
    IF h.ch[self] = <<>>
    THEN LET c == copy(h, self)
         IN  [heap |-> c.heap, score |-> IndexIs(sort_order, h.nm[self]) - 1,
              tree |-> c.result]
    ELSE LET cs == sorted_children(h, h.ch[self], sort_order, <<>>)
             \* the tuples (score, child) compare by score: no two scores are
             \* equal where the tips have names of their own, as those of a
             \* tree that a TreeBuilder made have
             scored_subtrees == list_sort(cs.scored)
             cp == sorted_copies(cs.heap, scored_subtrees, <<>>)
             tree == edgeFromEdge(NewBuilder(cp.heap), self, cp.children)
         IN  [heap |-> tree.heap, score |-> scored_subtrees[1].key,
              tree |-> tree.result]

\* sorted(sort_order): [heap, score, tree]
sorted(h, self, sort_order) ==
    sorted_scored(h, self, sort_order \o sort_names(getTipNames(h, self)))

RECURSIVE sameShape(_, _, _)
sameShape(h, self, other) ==
    IF Len(h.ch[self]) # Len(h.ch[other]) THEN FALSE
    ELSE IF h.ch[self] # <<>>
    THEN \A k \in DOMAIN h.ch[self] : sameShape(h, h.ch[self][k], h.ch[other][k])
    ELSE h.nm[self] = h.nm[other]

\* the outcome of a call that raised nothing
no_error(s) == [heap |-> s.heap, err |-> NoError, tree |-> s.tree]

\* ".sorted(tip_names)" on what rootedWithTip returned, if it returned
sorted_rooted(rooted, tip_names) ==
    IF rooted.err # NoError
    THEN [heap |-> rooted.heap, err |-> rooted.err, tree |-> None]
    ELSE no_error(sorted(rooted.heap, rooted.result, tip_names))

\* tree.rootedWithTip(root_at).sorted(tip_names): [heap, err, tree]
rooted_and_sorted(h, tree, root_at, tip_names) ==
    sorted_rooted(rootedWithTip(h, tree, root_at), tip_names)

\* me, then them: the trees of the list, each rooted with the tip and sorted,
\* up to the first that raises: [heap, err, forms]
RECURSIVE forms_from(_, _, _, _, _)
RECURSIVE forms_after(_, _, _, _, _)
forms_after(form, trees, root_at, tip_names, forms) ==
    IF form.err # NoError THEN [heap |-> form.heap, err |-> form.err, forms |-> forms]
    ELSE forms_from(form.heap, trees, root_at, tip_names, Append(forms, form.tree))

forms_from(h, trees, root_at, tip_names, forms) ==
    IF trees = <<>> THEN [heap |-> h, err |-> NoError, forms |-> forms]
    ELSE forms_after(rooted_and_sorted(h, Head(trees), root_at, tip_names),
                     Tail(trees), root_at, tip_names, forms)

\* "return self is other or me.sameShape(them)"
same_or_sameShape(self, other, f) ==
    IF f.err # NoError THEN Result(f.err, None)
    ELSE Result(NoError, self = other \/ sameShape(f.heap, f.forms[1], f.forms[2]))

sameTopology_from(self, other, tip_names) ==
    same_or_sameShape(self, other,
                      forms_from(BuildHeap, <<self, other>>, tip_names[1], tip_names, <<>>))

\* the comparison with a slip: the two trees are compared as they are
sameTopology_as_rooted(self, other) ==
    Result(NoError, self = other \/ sameShape(BuildHeap, self, other))

\* sameTopology(other): the value returned, or the exception raised
sameTopology(self, other) ==
    sameTopology_from(self, other, getTipNames(BuildHeap, self))

\* -------------------------------------------------- the topology specification
\* the end of a call that makes the tree T' from the tree of self; an
\* exception leaves the trees as they are
CommitDerived(op, self, arg, r) ==
    /\ ops = 0
    /\ IF r.err # NoError
       THEN CommitFull([BuildHeap EXCEPT !.err = TRUE], Raised)
       ELSE CommitFull(r.heap, [op |-> op, self |-> self, arg |-> arg,
                                val |-> r.result, before |-> made])

DoRootedWithTip(self, outgroup_name) ==
    CommitDerived("rootedWithTip", self, outgroup_name,
                  rootedWithTip(BuildHeap, self, outgroup_name))

DoRootedAt(self, edge_name) ==
    CommitDerived("rootedAt", self, edge_name, rootedAt(BuildHeap, self, edge_name))

\* T' = T.copy(), whose lists of children the caller then puts in other orders
DoCopyTree(self) ==
    LET c == copy(BuildHeap, self)
    IN  CommitDerived("permuted", self, None,
                      [heap |-> c.heap, err |-> NoError, result |-> c.result])

\* the caller puts the children of the node n of the copy in another order
Reorder(n, order) ==
    /\ ret.op = "permuted"
    /\ n \in made \ ret.before
    /\ order # Children[n]
    /\ Children' = [Children EXCEPT ![n] = order]
    /\ UNCHANGED <<made, Name, parent, ret, ops, gen, out, params, dicts>>

\* self.sameTopology(other) for two trees; how is the call that made one of
\* them, if any.  The call makes trees of its own and leaves the two as they are.
DoSameTopology(self, other) ==
    /\ ret.op \notin {"sameTopology", "raise"}
    /\ ret' = [op |-> "sameTopology", self |-> self, arg |-> other,
               val |-> sameTopology(self, other), how |-> ret]
    /\ ops' = ops + 1
    /\ UNCHANGED <<made, Name, parent, Children, gen, out, params, dicts>>

\* the ways the nodes of a tree are named: each with a name of its own; the
\* tips so and the others not at all; the tips so and the others "x"
Namings == {"own", "tips", "same"}

NamedBy(naming, ch) ==
    [n \in DOMAIN ch |->
        IF naming = "own" \/ ch[n] = <<>> THEN NodeName(n)
        ELSE IF naming = "tips" THEN NoName ELSE "x"]

\* one tree of TreeSize nodes
InitTopologyAny ==
    /\ made = TreeNodes
    /\ parent \in {p \in ParentMaps : \A n \in TreeNodes : n > 1 => p[n] # None}
    /\ Children \in ChildLists(parent, TreeSize)
    /\ Name \in {NamedBy(naming, Children) : naming \in Namings}

\* trees with names that a TreeBuilder changes or that two nodes have:
\* (A,(B)A)x; (edge,(A)); (,(A)p)r with a tip named None or ''; (root,B); ((A),edge.0);
\* (((B),A)); and the single node A
TopologyNamed ==
    {[nm |-> <<"x", "A", "A", "B">>, par |-> <<None, 1, 1, 3>>,
      ch |-> <<<<2, 3>>, <<>>, <<4>>, <<>>>>],
     [nm |-> <<NoName, "edge", NoName, "A">>, par |-> <<None, 1, 1, 3>>,
      ch |-> <<<<2, 3>>, <<>>, <<4>>, <<>>>>],
     [nm |-> <<"r", NoName, "p", "A">>, par |-> <<None, 1, 1, 3>>,
      ch |-> <<<<2, 3>>, <<>>, <<4>>, <<>>>>],
     [nm |-> <<"r", "", "p", "A">>, par |-> <<None, 1, 1, 3>>,
      ch |-> <<<<2, 3>>, <<>>, <<4>>, <<>>>>],
     [nm |-> <<NoName, "root", "B">>, par |-> <<None, 1, 1>>,
      ch |-> <<<<2, 3>>, <<>>, <<>>>>],
     [nm |-> <<NoName, NoName, "A", "edge.0">>, par |-> <<None, 1, 2, 1>>,
      ch |-> <<<<2, 4>>, <<3>>, <<>>, <<>>>>],
     [nm |-> <<NoName, NoName, NoName, "B", "A">>, par |-> <<None, 1, 2, 3, 2>>,
      ch |-> <<<<2>>, <<3, 5>>, <<4>>, <<>>, <<>>>>],
     [nm |-> <<"A">>, par |-> <<None>>, ch |-> <<<<>>>>]}

\* two trees over the same tips: ((A,B),(C,D)) with ((A,C),(B,D)) or with
\* ((D,C),(B,A)), and (A,B,C) with (A,(B,C))
TopologyPairs ==
    {[nm |-> <<NoName, NoName, NoName, "A", "B", "C", "D",
               NoName, NoName, NoName, "A", "C", "B", "D">>,
      par |-> <<None, 1, 1, 2, 2, 3, 3, None, 8, 8, 9, 9, 10, 10>>,
      ch |-> <<<<2, 3>>, <<4, 5>>, <<6, 7>>, <<>>, <<>>, <<>>, <<>>,
               <<9, 10>>, <<11, 12>>, <<13, 14>>, <<>>, <<>>, <<>>, <<>>>>],
     [nm |-> <<NoName, NoName, NoName, "A", "B", "C", "D",
               NoName, NoName, NoName, "D", "C", "B", "A">>,
      par |-> <<None, 1, 1, 2, 2, 3, 3, None, 8, 8, 9, 9, 10, 10>>,
      ch |-> <<<<2, 3>>, <<4, 5>>, <<6, 7>>, <<>>, <<>>, <<>>, <<>>,
               <<9, 10>>, <<11, 12>>, <<13, 14>>, <<>>, <<>>, <<>>, <<>>>>],
     [nm |-> <<NoName, "A", "B", "C", NoName, "A", NoName, "B", "C">>,
      par |-> <<None, 1, 1, 1, None, 5, 5, 7, 7>>,
      ch |-> <<<<2, 3, 4>>, <<>>, <<>>, <<>>, <<6, 7>>, <<>>, <<8, 9>>, <<>>, <<>>>>]}

InitTopologyExample ==
    \E e \in TopologyNamed \cup TopologyPairs :
        /\ made = DOMAIN e.nm
        /\ Name = e.nm
        /\ parent = e.par
        /\ Children = e.ch

InitTopology ==
    /\ InitTopologyAny \/ InitTopologyExample
    /\ params = [n \in made |-> n]
    /\ dicts = [n \in made |-> NoLength]
    /\ ret = NoValue
    /\ ops = 0
    /\ gen = NoGen
    /\ out = <<>>

Roots == {n \in made : parent[n] = None}

NextTopology ==
    \/ \E self \in Roots, name \in NamesOf(made) : DoRootedWithTip(self, name)
    \/ \E self \in Roots, name \in NamesOf(made) : DoRootedAt(self, name)
    \/ \E self \in Roots : DoCopyTree(self)
    \/ \E n \in made : \E order \in Orderings(Range(Children[n])) : Reorder(n, order)
    \/ \E self \in Roots, other \in Roots : DoSameTopology(self, other)

SpecTopology == InitTopology /\ [][NextTopology]_vars

\* the names of the tips of the tree with the root r
TipNamesOf(r) == NamesOf(TipsOf(Subtree(r)))

\* no two tips of the tree r have one name
UniqueTipNames(r) ==
    \A t, u \in TipsOf(Subtree(r)) : t # u => Name[t] # Name[u]

\* the names that end in a suffix '.<n>'
SuffixedNames == {KeyName(k) : k \in {j \in SortKeys : j[2] # 0}}

\* the root of the tree r has two children or more, and every tip has a name
\* that no other node of the tree has, that a TreeBuilder keeps ('edge' and
\* the names with a suffix '.<n>' it may not) and that is not 'root', the name
\* of the root of a rerooted tree
TipsTold(r) ==
    /\ Len(Children[r]) >= 2
    /\ \A t \in TipsOf(Subtree(r)) :
          /\ Name[t] \notin {NoName, "", "root", "edge"} \cup SuffixedNames
          /\ \A n \in Subtree(r) \ {t} : Name[n] # Name[t]

\* the call was T.sameTopology(T') with T' made from T by rootedWithTip,
\* rootedAt, or a copy whose children were put in other orders
OnDerived ==
    /\ ret.op = "sameTopology"
    /\ ret.how.op \in {"rootedWithTip", "rootedAt", "permuted"}
    /\ ret.self = ret.how.self
    /\ ret.arg = ret.how.val

\* C21 as stated: for a tree T with unique tip names T.sameTopology(T') is
\* true whenever T' is made from T by rerooting (rootedWithTip, rootedAt) or by
\* permuting the children of nodes, and for two trees over the same tip names
\* sameTopology(T, T') = sameTopology(T', T)
CE_C21_SameTopology ==
    (ret.op = "sameTopology" /\ UniqueTipNames(ret.self)) =>
        /\ OnDerived => ret.val = Result(NoError, TRUE)
        /\ (UniqueTipNames(ret.arg) /\ TipNamesOf(ret.self) = TipNamesOf(ret.arg))
               => ret.val = sameTopology(ret.arg, ret.self)

\* C21, amended: the same for trees whose root has two children or more and
\* whose tips have names that no other node of the tree has and that are not
\* empty, 'root', 'edge' or a name with a suffix '.<n>'; for two such trees
\* over the same tip names both calls return the same truth value
Thm_C21_SameTopology ==
    (ret.op = "sameTopology" /\ TipsTold(ret.self)) =>
        /\ OnDerived => ret.val = Result(NoError, TRUE)
        /\ (TipsTold(ret.arg) /\ TipNamesOf(ret.self) = TipNamesOf(ret.arg))
               => /\ ret.val.err = NoError
                  /\ ret.val = sameTopology(ret.arg, ret.self)

\* a tree of three tips or more with well-named tips is the same as the tree
\* that rootedWithTip made from it, whose root has another number of children
Wit_C21_SameTopology ==
    /\ OnDerived
    /\ ret.how.op = "rootedWithTip"
    /\ TipsTold(ret.self)
    /\ Cardinality(TipsOf(Subtree(ret.self))) >= 3
    /\ Len(Children[ret.arg]) # Len(Children[ret.self])
    /\ ret.val = Result(NoError, TRUE)

=============================================================================
